---- MODULE Spec2Model ----
(***************************************************************************)
(* Campaign dispatch and delivery-tracking pipeline of sentinel:           *)
(*   start_campaign (Dispatch), send_worker (Delivery Worker),             *)
(*   ab_test_analyzer (AnalyzeABTest), the EventBridge scheduler rule      *)
(*   registered by campaigns_api, and common.exponential_backoff_retry.    *)
(* One campaign record lives in the Campaigns table; its configuration is  *)
(* drawn in Init from the records the creation API can write.              *)
(***************************************************************************)
EXTENDS Integers, Sequences, FiniteSets, TLC

VARIABLES
    campaign,       \* the Campaigns table row of campaign "c1"
    segments,       \* the Segments table: segment id -> row
    queue,          \* the Send Queue (SQS): sequence of send jobs
    events,         \* the Events table: sequence of event rows, in insertion order
    schedulerRule,  \* TRUE while the one-time rule start-campaign-c1 exists
    analyzerRule,   \* TRUE while the one-time rule analyze-ab-test-c1 exists
    lastDispatch,   \* what the most recent start_campaign invocation did
    lastRuns,       \* what the most recent send_worker invocation did, per record
    lastAnalyze,    \* what the most recent ab_test_analyzer invocation did
    retryRun,       \* the most recent direct run of exponential_backoff_retry
    nDispatch, nWorker, nAnalyze,  \* invocation counters (bounded)
    nFaults,        \* infrastructure faults met so far (bounded)
    linkMappings,   \* the LinkMappings table: set of rows
    lastMail,       \* the most recent minting of tracking links for a job's body
    lastHttp,       \* the most recent request to tracking_api and its response
    nTrack          \* tracking ids minted and requests served so far (bounded)

vars == <<campaign, segments, queue, events, schedulerRule, analyzerRule,
          lastDispatch, lastRuns, lastAnalyze, retryRun,
          nDispatch, nWorker, nAnalyze, nFaults,
          linkMappings, lastMail, lastHttp, nTrack>>

\* The state of the click, open and unsubscribe tracking.
trackVars == <<linkMappings, lastMail, lastHttp, nTrack>>

\* The state of the campaign pipeline apart from the Events table.
pipeVars == <<campaign, segments, queue, schedulerRule, analyzerRule,
              lastDispatch, lastRuns, lastAnalyze, retryRun,
              nDispatch, nWorker, nAnalyze>>

(***************************************************************************)
(* Bounds of the model.                                                    *)
(***************************************************************************)
MaxDispatch == 2
MaxWorker == 1
MaxAnalyze == 1
MaxBatch == 2
MaxFaults == 1
MaxTrack == 3
MaxCount == 3

(***************************************************************************)
(* Program constants.                                                      *)
(***************************************************************************)
ChunkSize == 10
max_retries == 3
IdLenIndividual == 8
IdLenSegment == 12
DefaultTestPercentage == 10

None == "None"

\* Python truthiness of an optional string field.
Truthy(x) == x # None /\ x # ""

\* CampaignState, CampaignType, CampaignDeliveryType, SegmentStatus values.
SCHEDULED == "SC"
PENDING == "P"
SENDING == "SE"
DONE == "D"
FAILED == "F"
TYPE_IMMEDIATE == "I"
TYPE_SCHEDULED == "S"
TYPE_AB_TEST == "AB"
INDIVIDUAL == "IND"
SEGMENT == "SEG"
SEG_ACTIVE == "A"
SEG_INACTIVE == "I"

\* hashlib.md5(text).hexdigest()[:n], kept symbolic: the digest of a text is
\* named by the text's parts, cut to n hex digits.
md5_hex(parts, n) == [fn |-> "md5", of |-> parts, len |-> n]

Range(s) == {s[i] : i \in 1..Len(s)}

Min(a, b) == IF a < b THEN a ELSE b

RECURSIVE SeqOfSet(_)
\* list(a_set): the elements in one fixed order.
SeqOfSet(S) ==
    IF S = {} THEN <<>>
    ELSE LET x == CHOOSE y \in S : TRUE IN <<x>> \o SeqOfSet(S \ {x})

(***************************************************************************)
(* The Segments table as the segment API left it.                          *)
(***************************************************************************)
BigEmails ==
    <<"u1@x.com", "u2@x.com", "u3@x.com", "u4@x.com", "u5@x.com", "u6@x.com",
      "u7@x.com", "u8@x.com", "u9@x.com">>

SegmentRow(status, emails) ==
    [status |-> status, emails |-> emails, last_campaign_id |-> None,
     last_recipient_count |-> 0]

InitSegments ==
    [s \in {"segX", "segBig", "segEmpty", "segDup", "segFour"} |->
        CASE s = "segX" -> SegmentRow(SEG_ACTIVE, <<"a@x.com", "b@x.com">>)
          [] s = "segBig" -> SegmentRow(SEG_INACTIVE, BigEmails)
          [] s = "segEmpty" -> SegmentRow(SEG_ACTIVE, <<>>)
          [] s = "segDup" -> SegmentRow(SEG_INACTIVE, <<"a@x.com", "A@X.com ", "a@x.com">>)
          [] s = "segFour" ->
                SegmentRow(SEG_INACTIVE, <<"a@x.com", "b@x.com", "u1@x.com", "u2@x.com">>)]

(***************************************************************************)
(* Recipient resolution (start_campaign).                                  *)
(***************************************************************************)
Contact(id, email) == [id |-> id, email |-> email]

\* fetch_all_emails_from_segments: the union of the stored lists, one contact
\* per distinct string; a scan error yields the empty list.
fetch_all_emails_from_segments(segs, active_only, readFail) ==
    IF readFail THEN <<>>
    ELSE LET all_emails ==
                 UNION {Range(segs[s].emails) :
                          s \in {t \in DOMAIN segs :
                                   ~(active_only /\ segs[t].status # SEG_ACTIVE)}}
             order == SeqOfSet(all_emails)
         IN [i \in 1..Len(order) |-> Contact(md5_hex(<<order[i]>>, IdLenSegment), order[i])]

\* fetch_segment_contacts, for a non-empty segment_id: the reserved ids scan
\* every segment; an unknown id and a read error both yield the empty list.
fetch_segment_contacts(segs, segment_id, readFail) ==
    IF segment_id = "all_active" THEN fetch_all_emails_from_segments(segs, TRUE, readFail)
    ELSE IF segment_id = "all_contacts" THEN fetch_all_emails_from_segments(segs, FALSE, readFail)
    ELSE IF readFail THEN <<>>
    ELSE IF segment_id \notin DOMAIN segs THEN <<>>
    ELSE LET emails == segs[segment_id].emails
         IN [i \in 1..Len(emails) |->
                Contact(md5_hex(<<segment_id, ":", emails[i]>>, IdLenSegment), emails[i])]

\* A recipient id scoped to the campaign, as the ids of segment contacts are
\* scoped to the segment.
create_individual_recipient_scoped(recipient_email) ==
    <<Contact(md5_hex(<<"c1", ":", recipient_email>>, IdLenIndividual), recipient_email)>>

\* create_individual_recipient: the id is hexdigest()[:8] of the md5 of the address.
create_individual_recipient(recipient_email) ==
    <<Contact(md5_hex(<<recipient_email>>, IdLenIndividual), recipient_email)>>

\* get_campaign_recipients: [raised |-> a ValueError was raised, contacts |-> list].
get_campaign_recipients(c, segs, readFail) ==
    IF c.delivery_type = INDIVIDUAL
    THEN IF ~Truthy(c.recipient_email)
         THEN [raised |-> TRUE, contacts |-> <<>>]
         ELSE [raised |-> FALSE, contacts |-> create_individual_recipient(c.recipient_email)]
    ELSE IF c.delivery_type = SEGMENT
    THEN IF ~Truthy(c.segment_id)
         THEN [raised |-> TRUE, contacts |-> <<>>]
         ELSE [raised |-> FALSE,
               contacts |-> fetch_segment_contacts(segs, c.segment_id, readFail)]
    ELSE [raised |-> TRUE, contacts |-> <<>>]

(***************************************************************************)
(* Fan-out to the Send Queue (start_campaign, ab_test_analyzer).           *)
(***************************************************************************)
\* _chunks with lst[i:i+n-1]: every full chunk loses its last element.
_chunks_short(lst, n) ==
    [k \in 1..((Len(lst) + n - 1) \div n) |->
        SubSeq(lst, (k - 1) * n + 1, Min(k * n - 1, Len(lst)))]

\* _chunks(lst, n): lst[0:n], lst[n:2n], ...
_chunks(lst, n) ==
    [k \in 1..((Len(lst) + n - 1) \div n) |->
        SubSeq(lst, (k - 1) * n + 1, Min(k * n, Len(lst)))]

TemplateData(subject, html_body, from_email, from_name) ==
    [subject |-> subject, html_body |-> html_body,
     from_email |-> from_email, from_name |-> from_name]

\* The message_body of one send job; variation_id is None when the key is absent.
MessageBody(campaign_id, contact, variation_id, template_data) ==
    [campaign_id |-> campaign_id, recipient_id |-> contact.id, email |-> contact.email,
     variation_id |-> variation_id, template_data |-> template_data]

\* The Entries of one send_message_batch call for one chunk of contacts.
Entries(campaign_id, batch, variation_id, template_data) ==
    [i \in 1..Len(batch) |->
        [Id |-> batch[i].id,
         MessageBody |-> MessageBody(campaign_id, batch[i], variation_id, template_data)]]

\* SQS refuses a batch whose entry Ids are not distinct (BatchEntryIdsNotDistinct).
IdsDistinct(entries) ==
    \A i, j \in 1..Len(entries) : entries[i].Id = entries[j].Id => i = j

\* The jobs of one accepted batch call that SQS reports under Successful; the entry
\* for address rej (if any) is reported under Failed, which the callers never read.
Successful(entries, rej) ==
    LET kept == SelectSeq(entries, LAMBDA e : e.MessageBody.email # rej)
    IN [i \in 1..Len(kept) |-> kept[i].MessageBody]

RECURSIVE EnqueueFrom(_, _, _, _)
\* The for-loop over the batches from call k on: send_message_batch raises on call
\* failAt (a service error) and on a batch with repeated Ids, which ends the handler.
\* accepted: the jobs placed on the queue; calls: the batch calls made;
\* counted: the entries the loop counted as enqueued.
EnqueueFrom(batches, k, failAt, rej) ==
    IF k > Len(batches)
    THEN [accepted |-> <<>>, calls |-> 0, crashed |-> FALSE, counted |-> 0]
    ELSE IF k = failAt \/ ~IdsDistinct(batches[k])
    THEN [accepted |-> <<>>, calls |-> 1, crashed |-> TRUE, counted |-> 0]
    ELSE LET rest == EnqueueFrom(batches, k + 1, failAt, rej)
         IN [accepted |-> Successful(batches[k], rej) \o rest.accepted,
             calls |-> 1 + rest.calls,
             crashed |-> rest.crashed,
             counted |-> Len(batches[k]) + rest.counted]

RECURSIVE Flatten(_)
Flatten(ss) == IF ss = <<>> THEN <<>> ELSE Head(ss) \o Flatten(Tail(ss))

(***************************************************************************)
(* start_campaign.lambda_handler (Dispatch).                               *)
(***************************************************************************)
\* What a handler hands back. statusCode 0 with kind "unhandled_exception" stands
\* for an exception that left the handler; enqueued is -1 when the body has no
\* "enqueued" key.
Result(statusCode, kind, enqueued) ==
    [statusCode |-> statusCode, kind |-> kind, enqueued |-> enqueued]

\* recipient_count=None, sent_count=None: the count is not given.
NoCount == -1

\* update_campaign_state(campaign_id, state, recipient_count, sent_count)
update_campaign_state(c, state, recipient_count) ==
    IF recipient_count = NoCount
    THEN [c EXCEPT !.state = state]
    ELSE [c EXCEPT !.state = state, !.recipient_count = recipient_count,
                   !.sent_count = recipient_count]

\* record_segment_campaign: nothing for the reserved ids, else the segment row
\* gets last_campaign_id and last_recipient_count.
record_segment_campaign(segs, campaign_id, segment_id, n) ==
    IF segment_id \in {"all_active", "all_contacts"} \/ segment_id \notin DOMAIN segs
    THEN segs
    ELSE [segs EXCEPT ![segment_id].last_campaign_id = campaign_id,
                      ![segment_id].last_recipient_count = n]

\* The expression total_contacts * (test_percentage / 100) / 3 is evaluated in
\* IEEE-754 double precision: test_percentage / 100 is rounded first, and for
\* the pairs below the product lands one ulp under the whole number that the
\* exact quotient total * pct / 300 reaches, so int() truncates to one less.
\* The table lists every such pair with total_contacts <= 120 and a whole
\* test_percentage <= 200 (e.g. 90 * 0.7 / 3 = 20.999999999999996).
RoundsBelow ==
    {<<45, 140>>, <<50, 114>>, <<75, 164>>, <<90, 70>>, <<90, 140>>, <<100, 57>>, <<100, 114>>}

\* int(total_contacts * (test_percentage / 100) / 3) on doubles
float_int(total_contacts, test_percentage) ==
    LET exact == (total_contacts * test_percentage) \div 300
    IN IF <<total_contacts, test_percentage>> \in RoundsBelow THEN exact - 1 ELSE exact

\* int(total_contacts * (test_percentage / 100) / 3), at least 1 when total >= 3.
test_group_size(total_contacts, test_percentage) ==
    LET size == float_int(total_contacts, test_percentage)
    IN IF size < 1 /\ total_contacts >= 3 THEN 1 ELSE size

\* lst[a:b] for 0 <= a <= b
Slice(lst, a, b) == SubSeq(lst, a + 1, Min(b, Len(lst)))

VarIds == <<"A", "B", "C">>

\* The three test groups of the shuffled contacts, in the order A, B, C.
ABGroups(c, shuffled) ==
    LET g == test_group_size(Len(shuffled), c.ab_test_config.test_percentage)
    IN [i \in 1..3 |-> Slice(shuffled, (i - 1) * g, i * g)]

ABRemainder(c, shuffled) ==
    LET g == test_group_size(Len(shuffled), c.ab_test_config.test_percentage)
    IN Slice(shuffled, 3 * g, Len(shuffled))

\* The batches the A/B branch sends: for each group, its chunks of 10.
ABBatches(c, shuffled) ==
    LET groups == ABGroups(c, shuffled)
        per(i) == LET ch == _chunks(groups[i], ChunkSize)
                      td == TemplateData(c.variations[i].subject, c.variations[i].content,
                                         c.from_email, c.from_name)
                  IN [k \in 1..Len(ch) |-> Entries(c.id, ch[k], VarIds[i], td)]
    IN per(1) \o per(2) \o per(3)

\* The batches the standard branch sends: the chunks of 10 of the contacts.
StandardBatches(c, contacts) ==
    LET ch == _chunks(contacts, ChunkSize)
        td == TemplateData(c.email_subject, c.email_body, c.from_email, c.from_name)
    IN [k \in 1..Len(ch) |-> Entries(c.id, ch[k], None, td)]

IsAB(c) == c.type = TYPE_AB_TEST

ABConfigValid(c) == c.ab_test_config.present /\ Len(c.variations) = 3

DispatchOut(c, segs, accepted, calls, batches, crashed, contacts, created, result) ==
    [campaign |-> c, segments |-> segs, accepted |-> accepted, calls |-> calls,
     batches |-> batches, crashed |-> crashed, contacts |-> contacts,
     ruleCreated |-> created, result |-> result]

\* An empty resolved list treated as a failure.
EmptyState_failed == FAILED

\* The state the handler writes when the resolved list is empty.
EmptyState == DONE

\* A lookup that answers with the stored row whatever id is asked for.
fetch_campaign_details_any(c, campaign_id) == TRUE

\* fetch_campaign_details: get_item by id finds the row c or nothing.
fetch_campaign_details(c, campaign_id) == campaign_id = c.id

\* The handler on payload {"campaign_id": campaign_id}, with the Campaigns row c.
\* readFail: the segment read raises; shuffled: what random.shuffle leaves;
\* failAt: the batch call that raises (0: none); rej: the address whose entry SQS
\* reports as Failed (None: none); schedOk: create_schedule succeeds.
start_campaign_handler(c, segs, campaign_id, readFail, shuffled, failAt, rej, schedOk) ==
    IF ~Truthy(campaign_id)
    THEN DispatchOut(c, segs, <<>>, 0, 0, FALSE, <<>>, FALSE,
                     Result(400, "campaign_id required", -1))
    ELSE IF ~fetch_campaign_details(c, campaign_id)
    THEN DispatchOut(c, segs, <<>>, 0, 0, FALSE, <<>>, FALSE,
                     Result(404, "Campaign not found", -1))
    ELSE
    LET rr == get_campaign_recipients(c, segs, readFail)
        contacts == rr.contacts
    IN
    IF rr.raised
    THEN DispatchOut(update_campaign_state(c, FAILED, NoCount), segs, <<>>, 0, 0, FALSE,
                     <<>>, FALSE, Result(400, "resolver error", -1))
    ELSE IF contacts = <<>>
    THEN DispatchOut(update_campaign_state(c, EmptyState, NoCount), segs, <<>>, 0, 0, FALSE,
                     <<>>, FALSE, Result(200, "no recipients found", -1))
    ELSE
    LET segs2 == IF c.delivery_type = SEGMENT
                 THEN record_segment_campaign(segs, c.id, c.segment_id, Len(contacts))
                 ELSE segs
    IN
    IF IsAB(c)
    THEN IF ~ABConfigValid(c)
         THEN DispatchOut(update_campaign_state(c, FAILED, NoCount), segs2, <<>>, 0, 0,
                          FALSE, contacts, FALSE, Result(400, "Invalid A/B test config", -1))
         ELSE LET batches == ABBatches(c, shuffled)
                  e == EnqueueFrom(batches, 1, failAt, rej)
                  created == /\ c.ab_test_config.decision_time = "future"
                             /\ schedOk
              IN IF e.crashed
                 THEN DispatchOut(c, segs2, e.accepted, e.calls, Len(batches), TRUE,
                                  contacts, FALSE, Result(0, "unhandled_exception", -1))
                 ELSE DispatchOut(update_campaign_state(c, SENDING, e.counted), segs2,
                                  e.accepted, e.calls, Len(batches), FALSE, contacts,
                                  created, Result(200, "ab started", e.counted))
    ELSE LET batches == StandardBatches(c, contacts)
             e == EnqueueFrom(batches, 1, failAt, rej)
         IN IF e.crashed
            THEN DispatchOut(c, segs2, e.accepted, e.calls, Len(batches), TRUE,
                             contacts, FALSE, Result(0, "unhandled_exception", -1))
            ELSE DispatchOut(update_campaign_state(c, SENDING, Len(contacts)), segs2,
                             e.accepted, e.calls, Len(batches), FALSE, contacts,
                             FALSE, Result(200, "started", Len(contacts)))

\* random.shuffle(contacts) leaves some reordering of the list; the model draws
\* from the list itself, its rotation by one and its reverse.
Rotate(lst, r) == [i \in 1..Len(lst) |-> lst[((i + r - 1) % Len(lst)) + 1]]
Reverse(lst) == [i \in 1..Len(lst) |-> lst[Len(lst) + 1 - i]]
Reorderings(lst) == {lst, Rotate(lst, 1), Reverse(lst)}

\* The orders the handler may work on: the shuffle happens in the A/B branch only.
Shuffles(c, contacts) ==
    IF IsAB(c) /\ ABConfigValid(c) /\ contacts # <<>> THEN Reorderings(contacts)
    ELSE {contacts}

(***************************************************************************)
(* Retry utilities (common.py).                                            *)
(***************************************************************************)
RETRYABLE_ERROR_CODES ==
    {"Throttling", "ThrottlingException", "RequestLimitExceeded", "ServiceUnavailable",
     "RequestTimeout", "InternalServerError", "InternalError",
     "ProvisionedThroughputExceededException", "TooManyRequestsException"}

PERMANENT_ERROR_CODES ==
    {"InvalidParameterValue", "ValidationError", "AccessDenied", "UnauthorizedOperation",
     "InvalidClientTokenId", "MessageRejected", "MailFromDomainNotVerified"}

\* An exception object as is_retryable_error sees it: whether it has a .code
\* (urllib HTTPError), whether it has a .response (botocore ClientError) and what
\* they hold.
HTTPError(code) ==
    [has_code |-> TRUE, code |-> code, has_response |-> FALSE, error_code |-> "",
     http_status |-> 0]
ClientError(error_code, http_status) ==
    [has_code |-> FALSE, code |-> 0, has_response |-> TRUE, error_code |-> error_code,
     http_status |-> http_status]
PlainException ==
    [has_code |-> FALSE, code |-> 0, has_response |-> FALSE, error_code |-> "",
     http_status |-> 0]

is_retryable_error(error) ==
    IF error.has_code
    THEN error.code = 429 \/ error.code >= 500
    ELSE IF error.has_response
    THEN IF error.error_code \in PERMANENT_ERROR_CODES THEN FALSE
         ELSE IF error.error_code \in RETRYABLE_ERROR_CODES THEN TRUE
         ELSE error.http_status >= 500 \/ error.http_status = 429
    ELSE TRUE

\* What one call of func() does: it returns, or it raises error.
Returned == [raised |-> FALSE, error |-> PlainException]
Raised(error) == [raised |-> TRUE, error |-> error]

RetryOut(ok, attempts, error) == [ok |-> ok, attempts |-> attempts, error |-> error]

RECURSIVE RetryLoop(_, _, _)
\* The for-loop of exponential_backoff_retry from iteration attempt (0-based) on;
\* calls[k] is what the k-th call of func() does.
RetryLoop(calls, attempt, maxr) ==
    IF attempt >= maxr + 1
    THEN RetryOut(FALSE, attempt, calls[attempt].error)
    ELSE LET r == calls[attempt + 1]
         IN IF ~r.raised THEN RetryOut(TRUE, attempt + 1, PlainException)
            ELSE IF ~is_retryable_error(r.error) THEN RetryOut(FALSE, attempt + 1, r.error)
            ELSE IF attempt >= maxr THEN RetryOut(FALSE, attempt + 1, r.error)
            ELSE RetryLoop(calls, attempt + 1, maxr)

RECURSIVE RetryLoopUncapped(_, _)
RetryLoopUncapped(calls, attempt) ==
    LET r == calls[attempt + 1]
    IN IF ~r.raised THEN RetryOut(TRUE, attempt + 1, PlainException)
       ELSE IF ~is_retryable_error(r.error) \/ attempt + 1 >= Len(calls)
       THEN RetryOut(FALSE, attempt + 1, r.error)
       ELSE RetryLoopUncapped(calls, attempt + 1)

\* exponential_backoff_retry without its cap: it retries while the error is retryable.
exponential_backoff_retry_uncapped(calls, maxr) == RetryLoopUncapped(calls, 0)

\* exponential_backoff_retry(func, max_retries): ok with func's result, or the
\* exception that left it; attempts counts the calls of func().
exponential_backoff_retry(calls, maxr) == RetryLoop(calls, 0, maxr)

(***************************************************************************)
(* The mail transports.                                                    *)
(***************************************************************************)
\* What the provider answers to one send: ok, or a fault. permanent is the fault's
\* class in the error taxonomy (invalid recipient / validation, authorization,
\* message rejected, domain not verified).
Fault(name, error_code, http_status, permanent) ==
    [name |-> name, error_code |-> error_code, http_status |-> http_status,
     permanent |-> permanent]

Ok == Fault("ok", "", 200, FALSE)

SesAnswers ==
    {Ok,
     Fault("rejected", "MessageRejected", 400, TRUE),
     Fault("denied", "AccessDenied", 403, TRUE),
     Fault("throttled", "Throttling", 400, FALSE),
     Fault("unknown4xx", "SomethingElse", 400, FALSE),
     Fault("unknown5xx", "SomethingElse", 500, FALSE)}

GmailAnswers ==
    {Ok,
     Fault("invalid", "", 400, TRUE),
     Fault("unauthorized", "", 401, TRUE),
     Fault("ratelimit", "", 429, FALSE),
     Fault("server", "", 500, FALSE)}

\* ses.send_email as func(): a ClientError carrying the provider's code and status.
ses_send_email(answer) ==
    IF answer.name = "ok" THEN Returned
    ELSE Raised(ClientError(answer.error_code, answer.http_status))

\* send_gmail: every exception of the HTTP call is caught and turned into
\* (False, str(e)).
send_gmail(answer) ==
    IF answer.name = "ok" THEN [success |-> TRUE] ELSE [success |-> FALSE]

\* _do_gmail_send as func(): a failed send_gmail becomes a plain Exception.
do_gmail_send(answer) ==
    IF send_gmail(answer).success THEN Returned ELSE Raised(PlainException)

\* The calls of func() for a transport and the provider's answers, call by call.
TransportCalls(use_gmail, answers) ==
    [k \in DOMAIN answers |->
        IF use_gmail THEN do_gmail_send(answers[k]) ELSE ses_send_email(answers[k])]

(***************************************************************************)
(* send_worker.lambda_handler (Delivery Worker).                           *)
(***************************************************************************)
\* The parameters generate_tracking_data declares (tracking.py) and the keywords
\* the worker passes to it (handler.py).
generate_tracking_data_params ==
    {"campaign_id", "recipient_id", "email", "cta_links", "base_url", "tracking_mode"}
generate_tracking_data_kwargs ==
    {"campaign_id", "recipient_id", "email", "cta_links", "variation_id"}

\* A Python call with a keyword the function does not declare raises TypeError.
RaisesTypeError(params, kwargs) == ~(kwargs \subseteq params)

\* The Events row update_email_status_in_events writes.
SentEvent(campaign_id, email, status) ==
    [type |-> "sent", campaign_id |-> campaign_id,
     recipient_id |-> md5_hex(<<email>>, IdLenIndividual), email |-> email,
     status |-> status, variation_id |-> None, raw_variation_id |-> None,
     raw_original_url |-> None]

\* update_email_status_in_events: the rows appended; a failed put_item is caught
\* and logged.
update_email_status_in_events(campaign_id, email, status, writeOk) ==
    IF writeOk THEN <<SentEvent(campaign_id, email, status)>> ELSE <<>>

\* One iteration of the handler's loop over the records, for send job `job`.
\* answers: the provider's answers call by call; use_gmail: the owner's transport.
\* gave_up tells why status is failed: the tracking call raised, the transport
\* failed permanently, or the retries were exhausted.
process_record(job, use_gmail, answers, writeOk) ==
    LET tracking_raised ==
            RaisesTypeError(generate_tracking_data_params, generate_tracking_data_kwargs)
        sent == exponential_backoff_retry(TransportCalls(use_gmail, answers), max_retries)
        status == IF tracking_raised THEN "failed"
                  ELSE IF sent.ok THEN "sent" ELSE "failed"
    IN [job |-> job, attempted |-> TRUE, provider |-> answers[1].name,
        tracking_raised |-> tracking_raised,
        attempts |-> IF tracking_raised THEN 0 ELSE sent.attempts,
        transport_ok |-> ~tracking_raised /\ sent.ok,
        gave_up |-> IF tracking_raised THEN "before transport"
                    ELSE IF sent.ok THEN "no"
                    ELSE IF ~is_retryable_error(sent.error) THEN "permanent"
                    ELSE "exhausted",
        status |-> status,
        appended |-> update_email_status_in_events(job.campaign_id, job.email, status,
                                                   writeOk)]

\* body["campaign_id"], body["recipient_id"], body["email"] are read before the
\* try: a body without one of these keys raises KeyError out of the handler.
\* A body is the record of its keys.
RequiredKeys == {"campaign_id", "recipient_id", "email"}
HasRequiredKeys(body) == RequiredKeys \subseteq DOMAIN body

\* The number of records the loop gets through: all of them, or those before the
\* first body that raises.
RECURSIVE RecordsReached(_)
RecordsReached(records) ==
    IF records = <<>> THEN 0
    ELSE IF ~HasRequiredKeys(Head(records)) THEN 0
    ELSE 1 + RecordsReached(Tail(records))

\* A record the loop never got to, or whose body raised before the try.
NotProcessed(body) ==
    [job |-> body, attempted |-> FALSE, provider |-> None,
     tracking_raised |-> FALSE, attempts |-> 0,
     transport_ok |-> FALSE, gave_up |-> "no", status |-> None, appended |-> <<>>]

\* A handler whose except block raises again after recording the failure: the
\* invocation fails as soon as one job failed.
worker_handler_reraise(records, use_gmail, answers, writeOk) ==
    LET runs == [i \in 1..Len(records) |->
                    IF HasRequiredKeys(records[i])
                    THEN process_record(records[i], use_gmail, answers, writeOk[i])
                    ELSE NotProcessed(records[i])]
        failed == \E i \in 1..Len(records) : runs[i].status # "sent"
    IN [runs |-> runs, crashed |-> failed,
        processed |-> IF failed THEN NoCount ELSE Len(records)]

\* send_worker.lambda_handler on the records: one process_record per record in
\* order until a body raises; crashed: the exception left the handler, so the
\* invocation failed and returned nothing.
worker_handler(records, use_gmail, answers, writeOk) ==
    LET n == RecordsReached(records)
    IN [runs |-> [i \in 1..Len(records) |->
                    IF i <= n
                    THEN process_record(records[i], use_gmail, answers, writeOk[i])
                    ELSE NotProcessed(records[i])],
        crashed |-> n < Len(records),
        processed |-> IF n < Len(records) THEN NoCount ELSE Len(records)]

(***************************************************************************)
(* Link tracking: tracking.py and the worker's replacement loop.           *)
(***************************************************************************)
\* A URL is the sequence of its pieces, scheme and host first; a string operation
\* on a URL acts on that sequence.
TRACKING_BASE_URL == "https://api.thesentinel.site"
Shop == <<"https://shop.example">>
ShopSale == <<"https://shop.example", "/sale">>
Blog == <<"https://blog.example">>
PageTop == <<"#top">>

\* An <a href=...>text</a> element; an HTML body is the sequence of its anchors.
Anchor(text, href) == [text |-> text, href |-> href]

Bodies ==
    {<<>>,
     <<Anchor("Buy", Shop)>>,
     <<Anchor("Buy", Shop), Anchor("Sale", ShopSale)>>,
     <<Anchor("Sale", ShopSale), Anchor("Buy", Shop)>>,
     <<Anchor("Buy", Shop), Anchor("Read", Blog)>>,
     <<Anchor("Buy", Shop), Anchor("Buy", Shop)>>,
     <<Anchor("Top", PageTop), Anchor("Read", Blog)>>}

\* url.startswith(('http://', 'https://')), and neither '#' nor 'javascript:'
\* occurs in the URL.
IsCta(a) ==
    /\ a.href # <<>>
    /\ Head(a.href) \in {Head(Shop), Head(Blog), TRACKING_BASE_URL}
    /\ \A k \in 1..Len(a.href) : a.href[k] # Head(PageTop)

\* extract_cta_links: {cta_id: url} in the order of appearance; cta_id is
\* "text (url)", with " #n" appended to the n-th repetition.
extract_cta_links(html) ==
    LET idx == SelectSeq([i \in 1..Len(html) |-> i], LAMBDA i : IsCta(html[i]))
    IN [k \in 1..Len(idx) |->
          [cta_id |-> [text |-> html[idx[k]].text, url |-> html[idx[k]].href,
                       n |-> Cardinality({j \in 1..(k - 1) : html[idx[j]] = html[idx[k]]})],
           url |-> html[idx[k]].href]]

\* str(uuid.uuid4()): the n-th identifier minted.
uuid4_repeating(n) == "t1"

uuid4(n) == "t" \o ToString(n)

\* f"{base_url}/track/click/{tracking_id}"
TrackingUrl(tracking_id) == <<TRACKING_BASE_URL, "/track/click/", tracking_id>>

\* The row store_link_mapping puts.
LinkRow(campaign_id, recipient_id, link_id, original_url, tracking_id, email) ==
    [tracking_id |-> tracking_id, campaign_id |-> campaign_id,
     recipient_id |-> recipient_id, email |-> email, link_id |-> link_id,
     original_url |-> original_url]

\* store_link_mapping: the rows added; a failed put_item is caught and logged.
store_link_mapping(campaign_id, recipient_id, link_id, original_url, tracking_id, email, storeOk) ==
    IF storeOk
    THEN {LinkRow(campaign_id, recipient_id, link_id, original_url, tracking_id, email)}
    ELSE {}

\* generate_tracking_data(campaign_id, recipient_id, email, cta_links): one
\* tracking URL per CTA link, whether or not its row was stored. minted: the
\* identifiers minted before; storeOk[k]: the k-th put_item succeeds.
generate_tracking_data(campaign_id, recipient_id, email, cta_links, minted, storeOk) ==
    [tracked_cta_links |->
        [k \in 1..Len(cta_links) |->
            [cta_id |-> cta_links[k].cta_id,
             tracking_url |-> TrackingUrl(uuid4(minted + k))]],
     rows |->
        UNION {store_link_mapping(campaign_id, recipient_id, cta_links[k].cta_id,
                                  cta_links[k].url, uuid4(minted + k), email, storeOk[k])
               : k \in 1..Len(cta_links)}]

\* s.replace(old, new): every occurrence of old in s, left to right.
RECURSIVE str_replace(_, _, _)
str_replace(s, old, new) ==
    IF old = <<>> \/ Len(s) < Len(old) THEN s
    ELSE IF SubSeq(s, 1, Len(old)) = old
    THEN new \o str_replace(SubSeq(s, Len(old) + 1, Len(s)), old, new)
    ELSE <<Head(s)>> \o str_replace(Tail(s), old, new)

\* The worker's loop over cta_links.items(), from the k-th item on:
\* processed_html = processed_html.replace(original_url, tracking_url).
RECURSIVE replace_cta_links(_, _, _, _)
replace_cta_links(html, cta_links, tracked, k) ==
    IF k > Len(cta_links) THEN html
    ELSE replace_cta_links(
            [i \in 1..Len(html) |->
                [html[i] EXCEPT !.href = str_replace(@, cta_links[k].url,
                                                     tracked[k].tracking_url)]],
            cta_links, tracked, k + 1)

\* The body a job's mail carries after tracking.py and the replacement loop.
Mail(job, minted, storeOk) ==
    LET cta_links == extract_cta_links(job.template_data.html_body)
        td == generate_tracking_data(job.campaign_id, job.recipient_id, job.email,
                                     cta_links, minted, storeOk)
    IN [minted |-> TRUE, serial |-> minted + Len(cta_links), job |-> job,
        cta_links |-> cta_links,
        tracked_cta_links |-> td.tracked_cta_links, rows |-> td.rows,
        processed_html |-> replace_cta_links(job.template_data.html_body, cta_links,
                                             td.tracked_cta_links, 1)]

(***************************************************************************)
(* tracking_api.lambda_handler: the Click, Open and Unsubscribe routes.    *)
(***************************************************************************)
DefaultFallback == <<"https://thesentinel.site">>

\* A GET request: the route of its path, the pieces of the path after the route
\* prefix, whether API Gateway supplies pathParameters.proxy, and the query
\* parameters fallback and email.
Request(route, rest, proxy, fallback, email) ==
    [route |-> route, rest |-> rest, proxy |-> proxy, fallback |-> fallback,
     email |-> email]

Response(statusCode, content_type, location, body) ==
    [statusCode |-> statusCode, content_type |-> content_type, Location |-> location,
     body |-> body]

\* The Events row record_tracking_event writes: raw is the request metadata, which
\* holds no variation_id.
TrackingEvent(campaign_id, recipient_id, email, event_type, original_url) ==
    [type |-> event_type, campaign_id |-> campaign_id, recipient_id |-> recipient_id,
     email |-> email, status |-> None, variation_id |-> None,
     raw_variation_id |-> None, raw_original_url |-> original_url]

\* record_tracking_event: the rows appended; a failed put_item is caught and logged.
record_tracking_event(campaign_id, recipient_id, email, event_type, original_url, writeOk) ==
    IF writeOk
    THEN <<TrackingEvent(campaign_id, recipient_id, email, event_type, original_url)>>
    ELSE <<>>

\* get_link_mapping: the rows with that tracking_id; a failed read is caught and
\* gives None.
get_link_mapping(mappings, tracking_id, readOk) ==
    IF readOk THEN {m \in mappings : <<m.tracking_id>> = tracking_id} ELSE {}

HttpOut(response, appended) == [response |-> response, appended |-> appended]

\* handle_click_tracking. The tracking id is pathParameters.proxy when supplied,
\* and path.strip('/').split('/')[2] otherwise.
handle_click_tracking(req, mappings, readOk, writeOk) ==
    LET tracking_id == IF req.proxy /\ req.rest # <<>> THEN req.rest
                       ELSE IF req.rest # <<>> THEN <<Head(req.rest)>>
                       ELSE <<>>
        found == IF tracking_id = <<>> THEN {}
                 ELSE get_link_mapping(mappings, tracking_id, readOk)
    IN IF found # {}
       THEN LET m == CHOOSE x \in found : TRUE
            IN HttpOut(Response(302, None, m.original_url, ""),
                       record_tracking_event(m.campaign_id, m.recipient_id, m.email,
                                             "click", m.original_url, writeOk))
       ELSE HttpOut(Response(302, None,
                             IF req.fallback # None THEN req.fallback
                             ELSE DefaultFallback, ""),
                    <<>>)

\* handle_open_tracking answering an error when the OPEN event cannot be written.
handle_open_tracking_strict(req, writeOk, logo) ==
    IF Len(req.rest) >= 2 /\ ~writeOk
    THEN [response |-> [statusCode |-> 500, content_type |-> "None", Location |-> "None",
                        body |-> "Internal server error"],
          appended |-> <<>>]
    ELSE [response |-> [statusCode |-> 200, content_type |-> "image/png",
                        Location |-> "None", body |-> "pixel"],
          appended |-> IF Len(req.rest) >= 2
                       THEN <<[type |-> "open", campaign_id |-> req.rest[1],
                               recipient_id |-> req.rest[2], email |-> "unknown",
                               status |-> "None", variation_id |-> "None",
                               raw_variation_id |-> "None", raw_original_url |-> "None"]>>
                       ELSE <<>>]

\* handle_open_tracking on /track/open/{campaign_id}/{recipient_id}.png. logo: the
\* fetch of SENTINEL_LOGO_URL ("unset", "ok" or "fails").
handle_open_tracking(req, writeOk, logo) ==
    HttpOut(Response(200, "image/png", None, IF logo = "ok" THEN "logo" ELSE "pixel"),
            IF Len(req.rest) >= 2
            THEN record_tracking_event(req.rest[1], req.rest[2],
                                       IF req.email # None THEN req.email ELSE "unknown",
                                       "open", None, writeOk)
            ELSE <<>>)

\* handle_unsubscribe on /unsubscribe/{token}: the metadata is built and dropped.
handle_unsubscribe(req) ==
    HttpOut(Response(200, "text/html", None, "Unsubscribe Successful"), <<>>)

\* lambda_handler: the route by the prefix of the path.
tracking_api_handler(req, mappings, readOk, writeOk, logo) ==
    IF req.route = "open" THEN handle_open_tracking(req, writeOk, logo)
    ELSE IF req.route = "click" THEN handle_click_tracking(req, mappings, readOk, writeOk)
    ELSE IF req.route = "unsubscribe" THEN handle_unsubscribe(req)
    ELSE HttpOut(Response(404, None, None, "Not found"), <<>>)

NoMail ==
    [minted |-> FALSE, serial |-> 0, job |-> None, cta_links |-> <<>>,
     tracked_cta_links |-> <<>>,
     rows |-> {}, processed_html |-> <<>>]

NoHttp ==
    [called |-> FALSE, request |-> Request("none", <<>>, FALSE, None, None),
     response |-> Response(0, None, None, ""), appended |-> <<>>,
     clicked |-> 0, original |-> None, rewritten |-> FALSE, job_variation |-> None,
     known |-> FALSE, intact |-> FALSE, writeOk |-> TRUE]

\* No link minted and no request served yet.
InitTracking ==
    /\ linkMappings = {}
    /\ lastMail = NoMail
    /\ lastHttp = NoHttp
    /\ nTrack = 0

(***************************************************************************)
(* ab_test_analyzer.lambda_handler (AnalyzeABTest).                        *)
(***************************************************************************)
\* raw.get('variation_id') or e.get('variation_id')
EventVarId(e) == IF Truthy(e.raw_variation_id) THEN e.raw_variation_id ELSE e.variation_id

CountOf(evts, type, v) ==
    Cardinality({i \in 1..Len(evts) : evts[i].type = type /\ EventVarId(evts[i]) = v})

\* A score in which a click weighs as much as an open.
Score_flat(evts, v) == CountOf(evts, "open", v) + CountOf(evts, "click", v)

Score(evts, v) == CountOf(evts, "open", v) + 2 * CountOf(evts, "click", v)

\* The scores dict the handler builds and returns.
Scores(evts) == [v \in Range(VarIds) |-> Score(evts, v)]

\* max(scores, key=scores.get) over the keys in the order A, B, C.
Winner(evts) ==
    LET a == Score(evts, "A")
        b == Score(evts, "B")
        cc == Score(evts, "C")
    IN IF a >= b /\ a >= cc THEN "A" ELSE IF b >= cc THEN "B" ELSE "C"

\* Every recipient that has any event taken as already sent to.
sent_recipients_any_type(evts) == {evts[i].email : i \in 1..Len(evts)}

\* The emails of the SENT rows (sent_recipients in the handler's loop).
sent_recipients(evts) == {evts[i].email : i \in {j \in 1..Len(evts) : evts[j].type = "sent"}}

\* The analyzer's own get_campaign_recipients: no error is raised for a missing
\* field, and a segment read error is not caught.
analyzer_recipients(c, segs) ==
    IF c.delivery_type = INDIVIDUAL
    THEN IF ~Truthy(c.recipient_email) THEN <<>>
         ELSE create_individual_recipient(c.recipient_email)
    ELSE IF c.delivery_type = SEGMENT
    THEN IF ~Truthy(c.segment_id) THEN <<>>
         ELSE fetch_segment_contacts(segs, c.segment_id, FALSE)
    ELSE <<>>

AnalyzeOut(c, accepted, calls, crashed, ran, winner, remainder) ==
    [campaign |-> c, accepted |-> accepted, calls |-> calls, crashed |-> crashed,
     ran |-> ran, winner |-> winner, remainder |-> remainder]

\* The handler on event {"campaign_id": campaign_id}.
analyzer_handler(c, segs, evts, campaign_id, readFail, failAt, rej) ==
    IF ~Truthy(campaign_id) \/ campaign_id # c.id \/ c.variations = <<>>
    THEN AnalyzeOut(c, <<>>, 0, FALSE, FALSE, None, <<>>)
    ELSE
    LET winner_id == Winner(evts)
    IN
    IF ~c.ab_test_config.present
    THEN AnalyzeOut(c, <<>>, 0, TRUE, TRUE, winner_id, <<>>)
    ELSE
    LET c2 == [c EXCEPT !.ab_test_config.winner_id = winner_id]
    IN
    IF readFail /\ c.delivery_type = SEGMENT /\ Truthy(c.segment_id)
    THEN AnalyzeOut(c2, <<>>, 0, TRUE, TRUE, winner_id, <<>>)
    ELSE
    LET all_contacts == analyzer_recipients(c, segs)
        remainder == SelectSeq(all_contacts,
                               LAMBDA k : k.email \notin sent_recipients(evts))
        idx == CHOOSE i \in 1..3 : VarIds[i] = winner_id
        winning == IF idx <= Len(c.variations) THEN c.variations[idx] ELSE c.variations[1]
        td == TemplateData(winning.subject, winning.content, c.from_email, c.from_name)
        ch == _chunks(remainder, ChunkSize)
        batches == [k \in 1..Len(ch) |-> Entries(c.id, ch[k], winner_id, td)]
        e == EnqueueFrom(batches, 1, failAt, rej)
    IN IF e.crashed
       THEN AnalyzeOut(c2, e.accepted, e.calls, TRUE, TRUE, winner_id, remainder)
       ELSE AnalyzeOut([c2 EXCEPT !.state = DONE], e.accepted, e.calls, FALSE, TRUE,
                       winner_id, remainder)

(***************************************************************************)
(* The Campaigns row the creation API writes (create_campaign_record).     *)
(***************************************************************************)
Variation(v) == [subject |-> "subject " \o v, content |-> "content " \o v]

CampaignRow(type, delivery_type, segment_id, recipient_email, test_percentage, decision_time) ==
    [id |-> "c1", type |-> type, delivery_type |-> delivery_type,
     segment_id |-> segment_id, recipient_email |-> recipient_email,
     state |-> IF type = TYPE_SCHEDULED THEN SCHEDULED ELSE PENDING,
     email_subject |-> "Hello", email_body |-> "<a href='https://shop.example/'>Buy</a>",
     from_email |-> "noreply@thesentinel.site", from_name |-> "Sentinel",
     variations |-> IF type = TYPE_AB_TEST
                    THEN <<Variation("A"), Variation("B"), Variation("C")>> ELSE <<>>,
     ab_test_config |-> [present |-> type = TYPE_AB_TEST,
                         test_percentage |-> test_percentage,
                         decision_time |-> decision_time, winner_id |-> None],
     recipient_count |-> NoCount, sent_count |-> NoCount]

StandardCampaigns ==
    {CampaignRow(t, SEGMENT, seg, None, DefaultTestPercentage, None) :
        t \in {TYPE_IMMEDIATE},
        seg \in {"segX", "segEmpty", "segDup", "ghost", "all_active", "all_contacts"}}
    \cup {CampaignRow(TYPE_SCHEDULED, SEGMENT, seg, None, DefaultTestPercentage, None) :
            seg \in {"segX", "segEmpty"}}
    \cup {CampaignRow(TYPE_IMMEDIATE, INDIVIDUAL, None, "a@x.com", DefaultTestPercentage,
                      None)}
    \* a row whose recipient_email was lost (written outside the creation API)
    \cup {CampaignRow(TYPE_IMMEDIATE, INDIVIDUAL, None, None, DefaultTestPercentage, None)}

ABCampaigns ==
    {CampaignRow(TYPE_AB_TEST, SEGMENT, seg, None, pct, dt) :
        seg \in {"segFour"}, pct \in {30}, dt \in {None, "past", "future"}}

InitCampaigns == StandardCampaigns \cup ABCampaigns

IsStandard(c) == c.type # TYPE_AB_TEST

(***************************************************************************)
(* State after the creation API returned.                                  *)
(***************************************************************************)
NoResult == Result(-1, "not invoked", -1)

NoDispatch ==
    [called |-> FALSE, campaign_id |-> None, viaScheduler |-> FALSE, stateBefore |-> None,
     stateAfter |-> None, found |-> FALSE, raised |-> FALSE, contacts |-> <<>>,
     accepted |-> <<>>, calls |-> 0, batches |-> 0, crashed |-> FALSE, failAt |-> 0,
     rej |-> None, readFail |-> FALSE, result |-> NoResult]

NoAnalyze ==
    [called |-> FALSE, campaign_id |-> None, stateBefore |-> None, stateAfter |-> None,
     winnerBefore |-> None, accepted |-> <<>>, calls |-> 0, crashed |-> FALSE,
     ran |-> FALSE, winner |-> None, scores |-> [v \in Range(VarIds) |-> 0],
     remainder |-> <<>>, failAt |-> 0, rej |-> None]

NoRetry ==
    [phase |-> "idle", use_gmail |-> FALSE, answers |-> <<>>,
     out |-> RetryOut(FALSE, 0, PlainException)]

Init ==
    /\ campaign \in InitCampaigns
    /\ segments = InitSegments
    /\ queue = <<>>
    /\ events = <<>>
    \* create_scheduler_rule: the rule exists unless its registration failed
    /\ schedulerRule \in (IF campaign.type = TYPE_SCHEDULED THEN BOOLEAN ELSE {FALSE})
    /\ analyzerRule = FALSE
    /\ lastDispatch = NoDispatch
    /\ lastRuns = <<>>
    /\ lastAnalyze = NoAnalyze
    /\ retryRun = NoRetry
    /\ nDispatch = 0
    /\ nWorker = 0
    /\ nAnalyze = 0
    /\ nFaults = 0
    /\ InitTracking

(***************************************************************************)
(* Operations.                                                             *)
(***************************************************************************)
\* The addresses whose entry the queue may report as Failed in this model.
Rejectable(contacts) ==
    IF contacts = <<>> THEN {None} ELSE {None, contacts[Len(contacts)].email}

\* The number of infrastructure faults among the inputs of one invocation.
Bit(b) == IF b THEN 1 ELSE 0

BatchCount(c, shuffled) ==
    IF shuffled = <<>> THEN 0
    ELSE IF IsAB(c) THEN (IF ABConfigValid(c) THEN Len(ABBatches(c, shuffled)) ELSE 0)
    ELSE Len(StandardBatches(c, shuffled))

\* One invocation of start_campaign with payload {"campaign_id": cid}.
DoDispatch(cid, viaScheduler) ==
    /\ nDispatch < MaxDispatch
    /\ \E readFail \in BOOLEAN :
         LET found == cid = campaign.id
             rr == get_campaign_recipients(campaign, segments, readFail)
             contacts == IF found THEN rr.contacts ELSE <<>>
         IN \E shuffled \in Shuffles(campaign, contacts) :
              \E failAt \in 0..BatchCount(campaign, shuffled),
                 rej \in Rejectable(contacts),
                 schedOk \in (IF IsAB(campaign) THEN BOOLEAN ELSE {TRUE}) :
                LET out == start_campaign_handler(campaign, segments, cid, readFail,
                                                  shuffled, failAt, rej, schedOk)
                    faults == Bit(readFail) + Bit(failAt # 0) + Bit(rej # None)
                              + Bit(~schedOk)
                IN /\ nFaults + faults <= MaxFaults
                   /\ nFaults' = nFaults + faults
                   /\ campaign' = out.campaign
                   /\ segments' = out.segments
                   /\ queue' = queue \o out.accepted
                   /\ analyzerRule' = (analyzerRule \/ out.ruleCreated)
                   /\ lastDispatch' =
                        [called |-> TRUE, campaign_id |-> cid,
                         viaScheduler |-> viaScheduler,
                         stateBefore |-> campaign.state,
                         stateAfter |-> out.campaign.state,
                         found |-> found, raised |-> found /\ rr.raised,
                         contacts |-> shuffled, accepted |-> out.accepted,
                         calls |-> out.calls, batches |-> out.batches,
                         crashed |-> out.crashed, failAt |-> failAt, rej |-> rej,
                         readFail |-> found /\ readFail, result |-> out.result]
    /\ nDispatch' = nDispatch + 1
    /\ UNCHANGED <<events, lastRuns, lastAnalyze, retryRun, nWorker, nAnalyze, trackVars>>

\* start_campaign invoked directly: the creation API's asynchronous trigger for a
\* campaign that is not scheduled, or a repeated delivery of an earlier invocation
\* (asynchronous invocations are delivered at least once).
InvokeStartCampaign ==
    /\ \E cid \in {"c1", "c404"} :
          /\ cid = "c1" => (campaign.type # TYPE_SCHEDULED \/ nDispatch > 0)
          /\ DoDispatch(cid, FALSE)
    /\ UNCHANGED schedulerRule

\* The one-time rule start-campaign-c1 fires and deletes itself.
SchedulerFires ==
    /\ schedulerRule
    /\ DoDispatch("c1", TRUE)
    /\ schedulerRule' = FALSE

\* The provider behaviours a worker invocation meets in this model: every send
\* answered alike, by ok or by one fault.
WorkerAnswers(use_gmail) ==
    IF use_gmail
    THEN {a \in GmailAnswers : a.name \in {"invalid"}}
    ELSE {a \in SesAnswers : a.name \in {"ok", "throttled"}}

ConstAnswers(a) == [k \in 1..(max_retries + 2) |-> a]

\* One invocation of send_worker on the next k records of the queue. When the
\* invocation fails, the event source deletes nothing: the whole batch becomes
\* visible on the queue again.
SendWorker ==
    /\ nWorker < MaxWorker
    /\ queue # <<>>
    /\ \E k \in 1..Min(MaxBatch, Len(queue)), use_gmail \in BOOLEAN :
         \E a \in WorkerAnswers(use_gmail),
            writeFail \in SUBSET (1..k) :
           LET out == worker_handler(SubSeq(queue, 1, k), use_gmail, ConstAnswers(a),
                                     [i \in 1..k |-> i \notin writeFail])
               runs == out.runs
           IN /\ nFaults + Cardinality(writeFail) <= MaxFaults
              /\ nFaults' = nFaults + Cardinality(writeFail)
              /\ lastRuns' = runs
              /\ events' = events \o Flatten([i \in 1..k |-> runs[i].appended])
              /\ queue' = IF out.crashed THEN queue
                          ELSE SubSeq(queue, k + 1, Len(queue))
    /\ nWorker' = nWorker + 1
    /\ UNCHANGED <<campaign, segments, schedulerRule, analyzerRule, lastDispatch,
                   lastAnalyze, retryRun, nDispatch, nAnalyze, trackVars>>

AnalyzerBatchCount(c, segs, evts) ==
    LET all == analyzer_recipients(c, segs)
        rem == SelectSeq(all, LAMBDA k : k.email \notin sent_recipients(evts))
    IN IF c.variations = <<>> THEN 0 ELSE Len(_chunks(rem, ChunkSize))

\* One invocation of ab_test_analyzer with event {"campaign_id": "c1"}.
DoAnalyze ==
    /\ nAnalyze < MaxAnalyze
    /\ \E readFail \in BOOLEAN,
          failAt \in 0..AnalyzerBatchCount(campaign, segments, events),
          rej \in Rejectable(analyzer_recipients(campaign, segments)) :
         LET out == analyzer_handler(campaign, segments, events, "c1", readFail,
                                     failAt, rej)
             faults == Bit(readFail) + Bit(failAt # 0) + Bit(rej # None)
         IN /\ nFaults + faults <= MaxFaults
            /\ nFaults' = nFaults + faults
            /\ campaign' = out.campaign
            /\ queue' = queue \o out.accepted
            /\ lastAnalyze' =
                 [called |-> TRUE, campaign_id |-> "c1", stateBefore |-> campaign.state,
                  stateAfter |-> out.campaign.state,
                  winnerBefore |-> campaign.ab_test_config.winner_id,
                  accepted |-> out.accepted, calls |-> out.calls,
                  crashed |-> out.crashed, ran |-> out.ran, winner |-> out.winner,
                  scores |-> IF out.ran THEN Scores(events)
                             ELSE [v \in Range(VarIds) |-> 0],
                  remainder |-> out.remainder, failAt |-> failAt, rej |-> rej]
    /\ nAnalyze' = nAnalyze + 1
    /\ UNCHANGED <<segments, events, schedulerRule, lastDispatch, lastRuns, retryRun,
                   nDispatch, nWorker, trackVars>>

\* ab_test_analyzer invoked directly (a repeated delivery, an operator).
InvokeAnalyzer ==
    /\ DoAnalyze
    /\ UNCHANGED analyzerRule

\* The one-time rule analyze-ab-test-c1 fires and deletes itself.
AnalyzerRuleFires ==
    /\ analyzerRule
    /\ DoAnalyze
    /\ analyzerRule' = FALSE

Next ==
    \/ InvokeStartCampaign
    \/ SchedulerFires
    \/ SendWorker
    \/ InvokeAnalyzer
    \/ AnalyzerRuleFires

Spec == Init /\ [][Next]_vars

\* start_campaign alone: what its invocations, first and repeated, do to the
\* campaign, the segments and the queue while no worker or analyzer runs.
NextDispatch ==
    \/ InvokeStartCampaign
    \/ SchedulerFires

SpecDispatch == Init /\ [][NextDispatch]_vars

(***************************************************************************)
(* exponential_backoff_retry run on its own, over every series of provider *)
(* answers, for both transports.                                           *)
(***************************************************************************)
InitRetry ==
    /\ campaign = CampaignRow(TYPE_IMMEDIATE, SEGMENT, "segX", None,
                              DefaultTestPercentage, None)
    /\ segments = InitSegments
    /\ queue = <<>>
    /\ events = <<>>
    /\ schedulerRule = FALSE
    /\ analyzerRule = FALSE
    /\ lastDispatch = NoDispatch
    /\ lastRuns = <<>>
    /\ lastAnalyze = NoAnalyze
    /\ \E use_gmail \in BOOLEAN :
         \E answers \in [1..(max_retries + 2) ->
                           IF use_gmail THEN GmailAnswers ELSE SesAnswers] :
           retryRun = [phase |-> "ready", use_gmail |-> use_gmail, answers |-> answers,
                       out |-> RetryOut(FALSE, 0, PlainException)]
    /\ nDispatch = 0
    /\ nWorker = 0
    /\ nAnalyze = 0
    /\ nFaults = 0
    /\ InitTracking

RunRetry ==
    /\ retryRun.phase = "ready"
    /\ retryRun' =
         [retryRun EXCEPT
            !.phase = "done",
            !.out = exponential_backoff_retry(
                        TransportCalls(retryRun.use_gmail, retryRun.answers),
                        max_retries)]
    /\ UNCHANGED <<campaign, segments, queue, events, schedulerRule, analyzerRule,
                   lastDispatch, lastRuns, lastAnalyze, nDispatch, nWorker, nAnalyze,
                   nFaults, trackVars>>

NextRetry == RunRetry

SpecRetry == InitRetry /\ [][NextRetry]_vars

(***************************************************************************)
(* Properties.                                                             *)
(***************************************************************************)
\* C1: once the state of a standard campaign is DONE or FAILED, no step of the
\* pipeline (start_campaign, ab_test_analyzer) changes it.
C1_TerminalAbsorbing ==
    [][(IsStandard(campaign) /\ campaign.state \in {DONE, FAILED})
         => campaign'.state = campaign.state]_vars

\* C2: every record a send_worker invocation processes gets exactly one SENT
\* event appended, with status sent or failed, also when the event write fails.
C2_ExactlyOneSentEvent ==
    \A i \in 1..Len(lastRuns) :
        /\ Len(lastRuns[i].appended) = 1
        /\ lastRuns[i].appended[1].type = "sent"
        /\ lastRuns[i].appended[1].status \in {"sent", "failed"}

\* C3: a job whose transport call succeeded is recorded as sent, and a job is
\* recorded as failed only after the transport failed permanently or the
\* retries were exhausted.
C3_FailedOnlyAfterTransportFailed ==
    \A i \in 1..Len(lastRuns) :
        /\ lastRuns[i].transport_ok => lastRuns[i].status = "sent"
        /\ lastRuns[i].status = "failed"
             => /\ lastRuns[i].attempts >= 1
                /\ lastRuns[i].gave_up \in {"permanent", "exhausted"}

\* C4: exponential_backoff_retry calls the transport at most max_retries + 1
\* times, whatever the provider answers; the worker calls it at most once per job.
C4_AttemptsBounded ==
    /\ retryRun.phase = "done" => retryRun.out.attempts <= max_retries + 1
    /\ \A i \in 1..Len(lastRuns) : lastRuns[i].attempts <= max_retries + 1

\* C4 witness: the transport failed on every call and was called max_retries + 1 times.
C4_Witness ==
    /\ retryRun.phase = "done"
    /\ \A k \in DOMAIN retryRun.answers : retryRun.answers[k].name # "ok"
    /\ ~retryRun.out.ok
    /\ retryRun.out.attempts = max_retries + 1

\* C5: when the provider's first answer is a permanent fault, the transport is
\* called exactly once and the send fails, on the SES and on the Gmail transport.
C5_PermanentNotRetried ==
    (retryRun.phase = "done" /\ retryRun.answers[1].permanent)
        => (retryRun.out.attempts = 1 /\ ~retryRun.out.ok)

ReservedSegments == {"all_active", "all_contacts"}

\* C7: a Dispatch of a SEGMENT campaign whose segment_id names no stored segment
\* and no reserved one answers an error, leaves the campaign FAILED and enqueues
\* nothing.
C7_UnknownSegmentFails ==
    (lastDispatch.called /\ lastDispatch.found /\ campaign.delivery_type = SEGMENT
       /\ Truthy(campaign.segment_id)
       /\ campaign.segment_id \notin (DOMAIN segments \cup ReservedSegments))
        => /\ lastDispatch.result.statusCode >= 400
           /\ lastDispatch.stateAfter = FAILED
           /\ lastDispatch.accepted = <<>>

\* The send job the Dispatch of standard campaign c owes to one recipient.
ExpectedJob(c, contact) ==
    [campaign_id |-> c.id, recipient_id |-> contact.id, email |-> contact.email,
     variation_id |-> None,
     template_data |-> [subject |-> c.email_subject, html_body |-> c.email_body,
                        from_email |-> c.from_email, from_name |-> c.from_name]]

\* A Dispatch of the standard branch that answered 200 and whose batches the
\* queue took in full.
SuccessfulStandardDispatch ==
    /\ lastDispatch.called /\ lastDispatch.found /\ IsStandard(campaign)
    /\ lastDispatch.result.statusCode = 200
    /\ lastDispatch.contacts # <<>>
    /\ lastDispatch.rej = None

\* C8: a successful Dispatch of a standard campaign places one send job per
\* resolved recipient, in order, each with the campaign id, the recipient's id
\* and email and the campaign's subject, body and sender.
C8_OneJobPerRecipient ==
    SuccessfulStandardDispatch
        => lastDispatch.accepted =
             [i \in 1..Len(lastDispatch.contacts) |->
                ExpectedJob(campaign, lastDispatch.contacts[i])]

\* C8 witness: such a Dispatch with more recipients than one chunk holds.
C8_Witness ==
    /\ SuccessfulStandardDispatch
    /\ Len(lastDispatch.contacts) > ChunkSize
    /\ lastDispatch.batches = 2
    /\ Len(lastDispatch.accepted) = Len(lastDispatch.contacts)
    /\ Len(queue) >= Len(lastDispatch.contacts)

\* C9: when the enqueue of one chunk fails, the other chunks are still attempted
\* and the Dispatch answers 200 with the count of the jobs enqueued.
C9_ChunkFailureIsolated ==
    (lastDispatch.called /\ lastDispatch.failAt # 0)
        => /\ lastDispatch.calls = lastDispatch.batches
           /\ lastDispatch.result.statusCode = 200
           /\ lastDispatch.result.enqueued = Len(lastDispatch.accepted)

StateEdges ==
    {<<SCHEDULED, PENDING>>, <<PENDING, SENDING>>, <<SENDING, DONE>>}
    \cup {<<st, FAILED>> : st \in {SCHEDULED, PENDING, SENDING, DONE}}

\* C10: every change of the campaign's state follows an edge of
\* SCHEDULED -> PENDING -> SENDING -> DONE, or leads to FAILED.
C10_StateMachineEdges ==
    [][campaign'.state # campaign.state
         => <<campaign.state, campaign'.state>> \in StateEdges]_vars

\* The pipeline with what the platform guarantees: a queued job is delivered to
\* the worker, and a one-time rule that exists fires.
SpecLive ==
    /\ Init /\ [][Next]_vars
    /\ WF_vars(SendWorker)
    /\ WF_vars(SchedulerFires)
    /\ WF_vars(AnalyzerRuleFires)

\* The last Dispatch enqueued a send job for every recipient it resolved.
AllRecipientsEnqueued ==
    /\ lastDispatch.called /\ lastDispatch.found
    /\ lastDispatch.contacts # <<>>
    /\ ~lastDispatch.crashed
    /\ Len(lastDispatch.accepted) = Len(lastDispatch.contacts)

\* C11: a standard campaign with at least one recipient, in state SENDING with
\* all of its recipients enqueued, eventually reaches DONE.
C11_StandardReachesDone ==
    (IsStandard(campaign) /\ campaign.state = SENDING /\ AllRecipientsEnqueued)
        ~> (campaign.state = DONE)

(***************************************************************************)
(* Link tracking as a component: tracking links are minted for the body of *)
(* a send job by tracking.generate_tracking_data, called with the keywords *)
(* it declares, and by the worker's replacement loop; recipients then      *)
(* request the routes of tracking_api.                                     *)
(***************************************************************************)
Evil == <<"https://evil.example">>

MailJobs ==
    {MessageBody("c1", Contact(md5_hex(<<"a@x.com">>, IdLenIndividual), "a@x.com"), v,
                 TemplateData("Hello", body, "noreply@thesentinel.site", "Sentinel"))
       : v \in {None, "B"}, body \in Bodies}

\* The keys of the LinkMappings rows.
LinkKeys(rows) == {m.tracking_id : m \in rows}

\* table.put_item(Item=...) for each of the rows: a row of the table with the
\* key of a new row is replaced by it.
put_items(table, rows) ==
    {m \in table : m.tracking_id \notin LinkKeys(rows)} \cup rows

\* Tracking links are minted for one of the jobs and its rows are stored.
MintLinksFor(jobs) ==
    /\ nTrack < MaxTrack
    /\ \E job \in jobs :
         \E storeOk \in [1..Len(extract_cta_links(job.template_data.html_body)) -> BOOLEAN] :
           LET faults == Cardinality({k \in DOMAIN storeOk : ~storeOk[k]})
               mail == Mail(job, lastMail.serial, storeOk)
           IN /\ nFaults + faults <= MaxFaults
              /\ nFaults' = nFaults + faults
              /\ lastMail' = mail
              /\ linkMappings' = put_items(linkMappings, mail.rows)
    /\ nTrack' = nTrack + 1
    /\ UNCHANGED <<pipeVars, events, lastHttp>>

MintLinks == MintLinksFor(MailJobs)

\* The TTL of a LinkMappings row passes and the table drops the row.
ExpireLink ==
    /\ nTrack < MaxTrack
    /\ \E m \in linkMappings : linkMappings' = linkMappings \ {m}
    /\ nTrack' = nTrack + 1
    /\ UNCHANGED <<pipeVars, events, lastMail, lastHttp, nFaults>>

\* The anchors of the last mail whose href is a URL of the Click route.
ClickableAnchors ==
    {i \in 1..Len(lastMail.processed_html) :
        LET h == lastMail.processed_html[i].href
        IN Len(h) >= 3 /\ SubSeq(h, 1, 2) = SubSeq(TrackingUrl("x"), 1, 2)}

\* One request served by tracking_api. clicked: the anchor of the last mail the
\* request comes from (0: none).
Serve(req, clicked) ==
    /\ nTrack < MaxTrack
    /\ \E readOk \in BOOLEAN, writeOk \in BOOLEAN, logo \in {"unset", "ok", "fails"} :
         LET out == tracking_api_handler(req, linkMappings, readOk, writeOk, logo)
             faults == Bit(~readOk) + Bit(~writeOk) + Bit(logo = "fails")
         IN /\ (req.route # "click") => readOk
            /\ (req.route = "unsubscribe") => (writeOk /\ logo = "unset")
            /\ (req.route = "click") => logo = "unset"
            /\ nFaults + faults <= MaxFaults
            /\ nFaults' = nFaults + faults
            /\ events' = events \o out.appended
            /\ lastHttp' =
                 [called |-> TRUE, request |-> req, response |-> out.response,
                  appended |-> out.appended, clicked |-> clicked,
                  original |-> IF clicked = 0 THEN None
                               ELSE lastMail.job.template_data.html_body[clicked].href,
                  rewritten |-> clicked # 0
                                /\ lastMail.processed_html[clicked].href
                                   # lastMail.job.template_data.html_body[clicked].href,
                  job_variation |-> IF clicked = 0 THEN None
                                    ELSE lastMail.job.variation_id,
                  known |-> req.rest # <<>>
                            /\ \E m \in linkMappings : m.tracking_id = Head(req.rest),
                  intact |-> /\ readOk
                             /\ Cardinality(lastMail.rows) = Len(lastMail.cta_links)
                             /\ lastMail.rows \subseteq linkMappings,
                  writeOk |-> writeOk]
    /\ nTrack' = nTrack + 1
    /\ UNCHANGED <<pipeVars, linkMappings, lastMail>>

\* GET /track/click/...: a link of the last mail is followed, or some other
\* tracking id is requested.
ClickWith(proxy, fallback) ==
       \/ \E i \in ClickableAnchors :
             Serve(Request("click",
                           SubSeq(lastMail.processed_html[i].href, 3,
                                  Len(lastMail.processed_html[i].href)),
                           proxy, fallback, None), i)
       \/ \E rest \in {<<>>, <<"does-not-exist">>} :
             Serve(Request("click", rest, proxy, fallback, None), 0)

GetClick ==
    \E proxy \in BOOLEAN, fallback \in {None, Evil} : ClickWith(proxy, fallback)

\* GET /track/open/{campaign_id}/{recipient_id}.png, well formed or not.
OpenWith(rest, email) == Serve(Request("open", rest, FALSE, None, email), 0)

GetOpen ==
    \E rest \in {<<"c1", "r1">>, <<"c404", "r404">>, <<>>}, email \in {None, "a@x.com"} :
       OpenWith(rest, email)

\* GET /unsubscribe/{token}
GetUnsubscribe ==
    Serve(Request("unsubscribe", <<"c1-r1-1700000000">>, FALSE, None, None), 0)

\* GET of a path no route matches.
GetOther ==
    Serve(Request("other", <<>>, FALSE, None, None), 0)

NextTrack ==
    \/ MintLinks
    \/ ExpireLink
    \/ GetClick
    \/ GetOpen
    \/ GetUnsubscribe
    \/ GetOther

\* One campaign, created and not yet dispatched; no link minted, no request served.
InitTrack ==
    /\ Init
    /\ campaign = CampaignRow(TYPE_IMMEDIATE, INDIVIDUAL, None, "a@x.com",
                              DefaultTestPercentage, None)

SpecTrack == InitTrack /\ [][NextTrack]_vars

\* The Open route alone.
NextOpen == GetOpen

SpecOpen == InitTrack /\ [][NextOpen]_vars

C13_UnknownIdFallsBack ==
    (lastHttp.called /\ lastHttp.request.route = "click" /\ ~lastHttp.known)
        => /\ lastHttp.appended = <<>>
           /\ lastHttp.response.statusCode = 302
           /\ lastHttp.response.Location = DefaultFallback

C15_UnsubscribeRecorded ==
    (lastHttp.called /\ lastHttp.request.route = "unsubscribe")
        => /\ Len(lastHttp.appended) = 1
           /\ lastHttp.appended[1].type = "unsubscribe"
           /\ lastHttp.response.statusCode = 200
           /\ lastHttp.response.content_type = "text/html"

Repeat(e, n) == [i \in 1..n |-> e]

\* An OPEN or CLICK row whose raw metadata names variation v.
EngagementEvent(type, v) ==
    [TrackingEvent("c1", "r1", "a@x.com", type, None) EXCEPT !.raw_variation_id = v]

\* Rows the scoring must leave out: an open without variation, a click of a
\* variation the campaign does not have, a SENT row.
NoiseEvents ==
    <<TrackingEvent("c1", "r1", "a@x.com", "open", None),
      EngagementEvent("click", "D"),
      [SentEvent("c1", "a@x.com", "sent") EXCEPT !.variation_id = "A"]>>

\* opens[v] OPEN rows and clicks[v] CLICK rows of each variation v; the OPEN rows
\* of C name the variation at top level, the others in raw.
ScoreEvents(opens, clicks) ==
    Repeat(EngagementEvent("open", "A"), opens["A"])
    \o Repeat(EngagementEvent("click", "B"), clicks["B"])
    \o NoiseEvents
    \o Repeat(EngagementEvent("click", "A"), clicks["A"])
    \o Repeat(EngagementEvent("open", "B"), opens["B"])
    \o Repeat([TrackingEvent("c1", "r1", "a@x.com", "open", None)
                  EXCEPT !.variation_id = "C"], opens["C"])
    \o Repeat(EngagementEvent("click", "C"), clicks["C"])

\* An A/B campaign whose test groups were dispatched, with drawn engagement.
InitScore ==
    /\ campaign = [CampaignRow(TYPE_AB_TEST, SEGMENT, "segFour", None, 30, None)
                      EXCEPT !.state = SENDING]
    /\ segments = InitSegments
    /\ queue = <<>>
    /\ \E opens \in [Range(VarIds) -> 0..MaxCount], clicks \in [Range(VarIds) -> 0..MaxCount] :
         events = ScoreEvents(opens, clicks)
    /\ schedulerRule = FALSE
    /\ analyzerRule = FALSE
    /\ lastDispatch = NoDispatch
    /\ lastRuns = <<>>
    /\ lastAnalyze = NoAnalyze
    /\ retryRun = NoRetry
    /\ nDispatch = 0
    /\ nWorker = 0
    /\ nAnalyze = 0
    /\ nFaults = MaxFaults
    /\ InitTracking

NextScore == InvokeAnalyzer

SpecScore == InitScore /\ [][NextScore]_vars

\* The variation an event is attributed to.
VariantOf(e) == IF e.raw_variation_id # None THEN e.raw_variation_id ELSE e.variation_id

RECURSIVE Tally(_, _, _)
Tally(evts, type, v) ==
    IF evts = <<>> THEN 0
    ELSE (IF Head(evts).type = type /\ VariantOf(Head(evts)) = v THEN 1 ELSE 0)
         + Tally(Tail(evts), type, v)

ExpectedScore(v) == Tally(events, "open", v) + 2 * Tally(events, "click", v)

SplitEmails(n) == [i \in 1..n |-> "r" \o ToString(i) \o "@x.com"]

SplitTotals == {0, 1, 2, 3, 4, 9, 10, 30, 90, 100}

\* ab_test_config.test_percentage as the creation API stores it.
SplitPercentages == {10, 30, 57, 70, 100}

\* An A/B campaign over the segment segN just created, no infrastructure faults.
InitSplit ==
    /\ \E total \in SplitTotals, pct \in SplitPercentages :
         /\ campaign = CampaignRow(TYPE_AB_TEST, SEGMENT, "segN", None, pct, None)
         /\ segments = ("segN" :> SegmentRow(SEG_ACTIVE, SplitEmails(total))) @@ InitSegments
    /\ queue = <<>>
    /\ events = <<>>
    /\ schedulerRule = FALSE
    /\ analyzerRule = FALSE
    /\ lastDispatch = NoDispatch
    /\ lastRuns = <<>>
    /\ lastAnalyze = NoAnalyze
    /\ retryRun = NoRetry
    /\ nDispatch = 0
    /\ nWorker = 0
    /\ nAnalyze = 0
    /\ nFaults = MaxFaults
    /\ InitTracking

NextSplit == InvokeStartCampaign

SpecSplit == InitSplit /\ [][NextSplit]_vars

\* The addresses of the accepted jobs that carry variation v, in order.
GroupOf(jobs, v) == SelectSeq(jobs, LAMBDA j : j.variation_id = v)

\* floor(total * testFraction / 3), 1 when that is 0 and total >= 3.
SpecGroupSize(total, pct) ==
    LET size == (total * pct) \div 300
    IN IF size = 0 /\ total >= 3 THEN 1 ELSE size

\* The last invocation was an A/B dispatch that resolved recipients and enqueued.
ABDispatched ==
    /\ lastDispatch.called /\ lastDispatch.found
    /\ lastDispatch.result.kind = "ab started"

\* C17: at A/B dispatch (test percentage within 0..100) the resolved recipients
\* are split into three pairwise-disjoint test groups of size
\* floor(total * testFraction / 3) each (1 when that is 0 and total >= 3), only
\* the test groups are enqueued, and the recipients left over are the remainder:
\* 3 * size + |remainder| = total.
C17_SplitSizes ==
    (ABDispatched /\ campaign.ab_test_config.test_percentage \in 0..100) =>
        LET jobs == lastDispatch.accepted
            total == Len(lastDispatch.contacts)
            size == SpecGroupSize(total, campaign.ab_test_config.test_percentage)
            mails(v) == {GroupOf(jobs, v)[i].email :
                            i \in 1..Len(GroupOf(jobs, v))}
            all == {lastDispatch.contacts[i].email : i \in 1..total}
            remainder == all \ (mails("A") \cup mails("B") \cup mails("C"))
        IN /\ \A v \in Range(VarIds) :
                /\ Len(GroupOf(jobs, v)) = size
                /\ Cardinality(mails(v)) = size
                /\ mails(v) \subseteq all
           /\ \A v, w \in Range(VarIds) : v # w => mails(v) \cap mails(w) = {}
           /\ Len(jobs) = 3 * size
           /\ 3 * size + Cardinality(remainder) = total


(***************************************************************************)
(* A/B campaigns between the test dispatch and the decision.               *)
(***************************************************************************)
\* The campaign row shows a dispatch that resolved recipients: only the write
\* of SENDING sets recipient_count.
DispatchedWithRecipients == campaign.recipient_count # NoCount

\* C18: an A/B campaign that was dispatched with recipients is never DONE
\* without a persisted winner: it stays in SENDING until the analyzer has
\* written ab_test_config.winner_id and then DONE.
C18_DoneHasWinner ==
    (IsAB(campaign) /\ DispatchedWithRecipients /\ campaign.state = DONE)
        => campaign.ab_test_config.winner_id # None


(***************************************************************************)
(* The analyzer's send to the remainder (ab_test_analyzer).                *)
(***************************************************************************)
\* The sets of recipients the worker has recorded a SENT row for when the rule
\* fires: the first k of the resolved list, or every other one.
SentChoices(all) ==
    {{all[i].email : i \in 1..k} : k \in 0..Len(all)}
        \cup {{all[i].email : i \in {j \in 1..Len(all) : j % 2 = 1}}}

\* The Events rows of the campaign: a SENT row per recipient of sent and one for
\* an address that left the segment since, an OPEN row of the last recipient,
\* and a CLICK row naming the variation lead, if any.
RemainderEvents(all, sent, lead) ==
    LET order == SelectSeq(all, LAMBDA k : k.email \in sent)
    IN [i \in 1..Len(order) |-> SentEvent("c1", order[i].email, "sent")]
       \o <<SentEvent("c1", "z@x.com", "failed")>>
       \o (IF all = <<>> THEN <<>>
           ELSE <<TrackingEvent("c1", all[Len(all)].id, all[Len(all)].email, "open", None)>>)
       \o (IF lead = None THEN <<>> ELSE <<EngagementEvent("click", lead)>>)

\* An A/B campaign in SENDING when analyze-ab-test-c1 fires.
InitRemainder ==
    /\ \E seg \in {"segFour", "segBig", "all_contacts"} :
         /\ campaign = [CampaignRow(TYPE_AB_TEST, SEGMENT, seg, None, 30, "future")
                           EXCEPT !.state = SENDING]
         /\ \E sent \in SentChoices(fetch_segment_contacts(InitSegments, seg, FALSE)),
               lead \in {None, "B", "C"} :
              events = RemainderEvents(fetch_segment_contacts(InitSegments, seg, FALSE),
                                       sent, lead)
    /\ segments = InitSegments
    /\ queue = <<>>
    /\ schedulerRule = FALSE
    /\ analyzerRule = TRUE
    /\ lastDispatch = NoDispatch
    /\ lastRuns = <<>>
    /\ lastAnalyze = NoAnalyze
    /\ retryRun = NoRetry
    /\ nDispatch = 0
    /\ nWorker = 0
    /\ nAnalyze = 0
    /\ nFaults = 0
    /\ InitTracking

NextRemainder ==
    \/ AnalyzerRuleFires
    \/ InvokeAnalyzer

SpecRemainder == InitRemainder /\ [][NextRemainder]_vars

\* The analyzer ran to its end and the queue took every entry it was given.
AnalyzerCompleted ==
    /\ lastAnalyze.called /\ lastAnalyze.ran /\ ~lastAnalyze.crashed
    /\ lastAnalyze.rej = None

HasSentEvent(email) == \E i \in 1..Len(events) : events[i].type = "sent" /\ events[i].email = email

JobsFor(jobs, email) == Len(SelectSeq(jobs, LAMBDA j : j.email = email))

WorkerJob(email) ==
    MessageBody("c1", Contact(md5_hex(<<email>>, IdLenIndividual), email), None,
                TemplateData("Hello", "<p>hi</p>", "noreply@thesentinel.site", "Sentinel"))

BodyWithoutEmail == [campaign_id |-> "c1", recipient_id |-> "r0"]

WorkerBodies == {WorkerJob("a@x.com"), WorkerJob("b@x.com"), BodyWithoutEmail}

MaxQueue == 3

\* Messages on the send queue when the worker is invoked; the event store answers.
InitWorker ==
    /\ campaign = [CampaignRow(TYPE_IMMEDIATE, SEGMENT, "segX", None,
                               DefaultTestPercentage, None) EXCEPT !.state = SENDING]
    /\ segments = InitSegments
    /\ \E n \in 1..MaxQueue : queue \in [1..n -> WorkerBodies]
    /\ events = <<>>
    /\ schedulerRule = FALSE
    /\ analyzerRule = FALSE
    /\ lastDispatch = NoDispatch
    /\ lastRuns = <<>>
    /\ lastAnalyze = NoAnalyze
    /\ retryRun = NoRetry
    /\ nDispatch = 0
    /\ nWorker = 0
    /\ nAnalyze = 0
    /\ nFaults = MaxFaults
    /\ InitTracking

NextWorker == SendWorker

SpecWorker == InitWorker /\ [][NextWorker]_vars

\* C21: when the worker is handed several send jobs, every job of the batch is
\* attempted and gets its own SENT event, whatever happens to the other jobs of
\* the batch (a body the handler cannot read, a tracking failure, a transport
\* failure).
C21_OneFailureDoesNotBlock ==
    \A i \in 1..Len(lastRuns) :
        HasRequiredKeys(lastRuns[i].job)
            => /\ lastRuns[i].attempted
               /\ Len(lastRuns[i].appended) = 1
               /\ lastRuns[i].appended[1].email = lastRuns[i].job.email


(***************************************************************************)
(* Resolution of INDIVIDUAL campaigns (start_campaign, ab_test_analyzer).  *)
(***************************************************************************)
IndividualEmails == {"a@x.com", "b@x.com", "A@X.com "}

\* INDIVIDUAL campaigns of every type, with and without a stray segment_id.
IndividualCampaigns ==
    {CampaignRow(t, INDIVIDUAL, seg, email, DefaultTestPercentage, None) :
        t \in {TYPE_IMMEDIATE, TYPE_SCHEDULED, TYPE_AB_TEST},
        seg \in {None, "segX"}, email \in IndividualEmails}

InitResolve ==
    /\ campaign \in IndividualCampaigns
    /\ segments = InitSegments
    /\ queue = <<>>
    /\ events = <<>>
    /\ schedulerRule = (campaign.type = TYPE_SCHEDULED)
    /\ analyzerRule = FALSE
    /\ lastDispatch = NoDispatch
    /\ lastRuns = <<>>
    /\ lastAnalyze = NoAnalyze
    /\ retryRun = NoRetry
    /\ nDispatch = 0
    /\ nWorker = 0
    /\ nAnalyze = 0
    /\ nFaults = 0
    /\ InitTracking

NextResolve ==
    \/ InvokeStartCampaign
    \/ SchedulerFires
    \/ InvokeAnalyzer

SpecResolve == InitResolve /\ [][NextResolve]_vars

\* The one recipient of an address: its id is the 8-digit digest of the address
\* and of nothing else.
OneRecipientOf(contacts, email) ==
    /\ Len(contacts) = 1
    /\ contacts[1].email = email
    /\ contacts[1].id.fn = "md5" /\ contacts[1].id.len = IdLenIndividual
    /\ contacts[1].id.of = <<email>>

\* C22: for an INDIVIDUAL campaign the resolution returns exactly one recipient
\* whose id is a function of the email alone: every resolution, by the dispatch
\* and by the analyzer, at any time and for any campaign row, gives the same id
\* for the same email.
C22_IndividualIdFromEmail ==
    /\ (lastDispatch.called /\ lastDispatch.found /\ ~lastDispatch.raised)
          => OneRecipientOf(lastDispatch.contacts, campaign.recipient_email)
    /\ (lastAnalyze.called /\ lastAnalyze.ran /\ ~lastAnalyze.crashed)
          => OneRecipientOf(lastAnalyze.remainder, campaign.recipient_email)

\* C22 witness: the campaign of "A@X.com " was resolved twice by the dispatch
\* and once by the analyzer, each time to the one recipient of that address.
C22_Witness ==
    /\ nDispatch = 2 /\ lastDispatch.found /\ nAnalyze = 1 /\ lastAnalyze.ran
    /\ campaign.recipient_email = "A@X.com "
    /\ lastDispatch.contacts = lastAnalyze.remainder
    /\ Len(lastDispatch.contacts) = 1


(***************************************************************************)
(* Resolution of SEGMENT campaigns on stored lists of any shape.           *)
(***************************************************************************)
\* email.lower().strip() on the addresses of this model: the one address stored
\* with capitals and a trailing blank becomes a@x.com, the others are unchanged.
lower_strip(email) == IF email = "A@X.com " THEN "a@x.com" ELSE email

Unrecognized(answer) ==
    /\ answer.name # "ok"
    /\ ~answer.permanent
    /\ answer.error_code \notin (RETRYABLE_ERROR_CODES \cup PERMANENT_ERROR_CODES)
    /\ answer.http_status # 429 /\ answer.http_status < 500

\* C24: a transport error of no recognized retryable or permanent class is
\* classified as retryable: when every call ends in such an error the transport
\* is called up to the cap, max_retries + 1 times.
C24_UnknownErrorRetried ==
    (retryRun.phase = "done"
       /\ \A k \in DOMAIN retryRun.answers : Unrecognized(retryRun.answers[k]))
        => /\ ~retryRun.out.ok
           /\ retryRun.out.attempts = max_retries + 1


(***************************************************************************)
(* Resolver failures at dispatch.                                          *)
(***************************************************************************)
\* The resolution of the last Dispatch failed: a required field of the row is
\* missing, the delivery type is unknown, or the read of the segment store failed.
ResolverFailed ==
    /\ lastDispatch.called /\ lastDispatch.found
    /\ \/ lastDispatch.raised
       \/ /\ campaign.delivery_type = SEGMENT /\ Truthy(campaign.segment_id)
          /\ lastDispatch.readFail

\* C25: when the resolver fails for a campaign, the Dispatch leaves the campaign
\* FAILED, answers with the error and enqueues no send job.
C25_ResolverFailureFails ==
    ResolverFailed
        => /\ lastDispatch.stateAfter = FAILED
           /\ campaign.state = FAILED
           /\ lastDispatch.result.statusCode >= 400
           /\ lastDispatch.accepted = <<>>
           /\ lastDispatch.calls = 0


(***************************************************************************)
(* Dispatch of an id without Campaigns row.                                *)
(***************************************************************************)
\* C26: a Dispatch whose campaign_id names no Campaigns row answers 404 and
\* changes nothing: no campaign state is written, no segment is updated, no
\* rule is created and no send job is enqueued.
C26_NotFoundChangesNothing ==
    [][(nDispatch' # nDispatch /\ ~lastDispatch'.found)
          => /\ lastDispatch'.result.statusCode = 404
             /\ lastDispatch'.result.kind = "Campaign not found"
             /\ lastDispatch'.accepted = <<>> /\ lastDispatch'.calls = 0
             /\ campaign' = campaign
             /\ segments' = segments
             /\ queue' = queue
             /\ events' = events
             /\ analyzerRule' = analyzerRule]_vars

\* C26 witness: the id c404 was dispatched on a table holding only c1, which is
\* still PENDING with an empty queue.
C26_Witness ==
    /\ lastDispatch.called /\ ~lastDispatch.found
    /\ lastDispatch.campaign_id = "c404"
    /\ lastDispatch.result.statusCode = 404
    /\ campaign.state = PENDING /\ campaign.recipient_count = NoCount
    /\ queue = <<>>


(***************************************************************************)
(* Re-invocation after a crash in the middle of the fan-out.               *)
(***************************************************************************)
\* The last Dispatch of a standard campaign raised out of the enqueue loop after
\* at least one chunk was on the queue; the state was not written.
CrashedMidFanOut ==
    /\ lastDispatch.called /\ lastDispatch.found /\ IsStandard(campaign)
    /\ lastDispatch.crashed /\ lastDispatch.accepted # <<>>

\* C27: when a Dispatch crashed after enqueuing some chunks and before writing
\* SENDING, the next Dispatch (itself without fault) ends with the campaign in
\* SENDING and at least one send job on the queue for every resolved recipient,
\* and no recipient has more jobs than there were Dispatch invocations.
C27_ReinvocationCompletes ==
    [][(CrashedMidFanOut /\ nDispatch' # nDispatch /\ lastDispatch'.found
          /\ ~lastDispatch'.readFail /\ lastDispatch'.failAt = 0
          /\ lastDispatch'.rej = None)
          => /\ campaign'.state = SENDING
             /\ lastDispatch'.result.statusCode = 200
             /\ \A i \in 1..Len(lastDispatch'.contacts) :
                  /\ JobsFor(queue', lastDispatch'.contacts[i].email) >= 1
                  /\ JobsFor(queue', lastDispatch'.contacts[i].email) <= nDispatch']_vars

\* C27 witness: the 12 recipients of all_contacts, a first Dispatch that put the
\* first chunk of 10 on the queue and crashed, a second one that enqueued all 12
\* and wrote SENDING.
C27_Witness ==
    /\ nDispatch = 2 /\ lastDispatch.found /\ ~lastDispatch.crashed
    /\ lastDispatch.stateBefore = PENDING /\ campaign.state = SENDING
    /\ Len(lastDispatch.contacts) = 12 /\ Len(lastDispatch.accepted) = 12
    /\ Len(queue) = ChunkSize + 12
    /\ \E i \in 1..12 : JobsFor(queue, lastDispatch.contacts[i].email) = 2
    /\ \E i \in 1..12 : JobsFor(queue, lastDispatch.contacts[i].email) = 1


(***************************************************************************)
(* A failed job ends in the worker.                                        *)
(***************************************************************************)
\* The worker was just run on a batch all of whose bodies it can read, and
\* recorded job i as failed.
FailedIn(runs, i) ==
    /\ \A j \in 1..Len(runs) : HasRequiredKeys(runs[j].job)
    /\ runs[i].attempted /\ runs[i].status = "failed"

InitStores ==
    /\ campaign = [CampaignRow(TYPE_IMMEDIATE, INDIVIDUAL, None, "a@x.com",
                               DefaultTestPercentage, None) EXCEPT !.state = SENDING]
    /\ segments = InitSegments
    /\ queue = <<WorkerJob("a@x.com"), WorkerJob("a@x.com")>>
    /\ events = <<>>
    /\ schedulerRule = FALSE
    /\ analyzerRule = FALSE
    /\ lastDispatch = NoDispatch
    /\ lastRuns = <<>>
    /\ lastAnalyze = NoAnalyze
    /\ retryRun = NoRetry
    /\ nDispatch = 0
    /\ nWorker = 0
    /\ nAnalyze = 0
    /\ nFaults = 0
    /\ InitTracking

\* The mail of the queued job: one tracked link.
StoresJob ==
    CHOOSE job \in MailJobs :
       /\ job.variation_id = None
       /\ Len(extract_cta_links(job.template_data.html_body)) = 1

StoresMint == MintLinksFor({StoresJob})

StoresClick == ClickWith(FALSE, None)

StoresOpen == OpenWith(<<"c1", "r1">>, "a@x.com")

NextStores ==
    \/ SendWorker
    \/ StoresMint
    \/ StoresClick
    \/ StoresOpen

SpecStores == InitStores /\ [][NextStores]_vars

IsPrefix(s, t) == Len(s) <= Len(t) /\ SubSeq(t, 1, Len(s)) = s

DecideRow(n) ==
    [CampaignRow(TYPE_AB_TEST, SEGMENT, "segFour", None, 30, "future")
        EXCEPT !.state = SENDING,
               !.variations = SubSeq(<<Variation("A"), Variation("B"), Variation("C")>>, 1, n)]

\* No queue or table fault; per variation at most one OPEN and one CLICK row.
InitDecide ==
    /\ \E n \in 0..3 : campaign = DecideRow(n)
    /\ segments = InitSegments
    /\ queue = <<>>
    /\ \E opens \in [Range(VarIds) -> 0..1], clicks \in [Range(VarIds) -> 0..1] :
         events = ScoreEvents(opens, clicks)
    /\ schedulerRule = FALSE
    /\ analyzerRule = TRUE
    /\ lastDispatch = NoDispatch
    /\ lastRuns = <<>>
    /\ lastAnalyze = NoAnalyze
    /\ retryRun = NoRetry
    /\ nDispatch = 0
    /\ nWorker = 0
    /\ nAnalyze = 0
    /\ nFaults = MaxFaults
    /\ InitTracking

NextDecide ==
    \/ AnalyzerRuleFires
    \/ InvokeAnalyzer

SpecDecide == InitDecide /\ [][NextDecide]_vars

\* No OPEN or CLICK row is attributed to a variation.
NoEngagement == \A v \in Range(VarIds) : ExpectedScore(v) = 0

generate_smart_tracking_pixel(campaign_id, recipient_id, email) ==
    [rest |-> <<campaign_id, recipient_id>>, email |-> email]

IdsCampaigns ==
    {CampaignRow(TYPE_IMMEDIATE, INDIVIDUAL, None, "a@x.com", DefaultTestPercentage, None)}
    \cup {CampaignRow(TYPE_IMMEDIATE, SEGMENT, seg, None, DefaultTestPercentage, None) :
            seg \in {"segX", "all_active"}}

\* An INDIVIDUAL, a concrete-segment or a pseudo-segment campaign as created; no
\* queue or table fault.
InitIds ==
    /\ campaign \in IdsCampaigns
    /\ segments = InitSegments
    /\ queue = <<>>
    /\ events = <<>>
    /\ schedulerRule = FALSE
    /\ analyzerRule = FALSE
    /\ lastDispatch = NoDispatch
    /\ lastRuns = <<>>
    /\ lastAnalyze = NoAnalyze
    /\ retryRun = NoRetry
    /\ nDispatch = 0
    /\ nWorker = 0
    /\ nAnalyze = 0
    /\ nFaults = MaxFaults
    /\ InitTracking

\* The dispatched jobs, their mail carrying one link to track.
IdsJobs ==
    {[j EXCEPT !.template_data.html_body = <<Anchor("Buy", Shop)>>] :
        j \in {lastDispatch.accepted[i] : i \in 1..Len(lastDispatch.accepted)}}

IdsMint == MintLinksFor(IdsJobs)

IdsClick == ClickWith(FALSE, None)

\* The pixel URL of a dispatched job is requested.
IdsOpen ==
    \E j \in IdsJobs :
       LET pixel == generate_smart_tracking_pixel(j.campaign_id, j.recipient_id, j.email)
       IN OpenWith(pixel.rest, pixel.email)

NextIds ==
    \/ InvokeStartCampaign
    \/ SendWorker
    \/ IdsMint
    \/ IdsClick
    \/ IdsOpen

SpecIds == InitIds /\ [][NextIds]_vars

\* C31: a SENT row and an OPEN or CLICK row of the same campaign and the same
\* recipient carry the same recipient_id, whatever the campaign's delivery type.
C31_SameRecipientId ==
    \A i, j \in 1..Len(events) :
        (/\ events[i].type = "sent"
         /\ events[j].type \in {"open", "click"}
         /\ events[i].campaign_id = events[j].campaign_id
         /\ events[i].email = events[j].email)
            => events[i].recipient_id = events[j].recipient_id


(***************************************************************************)
(* An A/B campaign from Dispatch to the winner's dispatch.                 *)
(***************************************************************************)
\* An A/B campaign as created over a segment of 6 addresses, half of them in the
\* test groups, with decision_time absent, past or future; no queue or table
\* fault, and the analyzer's rule is registered or its registration fails.
InitAB ==
    /\ \E dt \in {None, "past", "future"} :
         campaign = CampaignRow(TYPE_AB_TEST, SEGMENT, "segN", None, 50, dt)
    /\ segments = ("segN" :> SegmentRow(SEG_ACTIVE, SplitEmails(6))) @@ InitSegments
    /\ queue = <<>>
    /\ events = <<>>
    /\ schedulerRule = FALSE
    /\ analyzerRule = FALSE
    /\ lastDispatch = NoDispatch
    /\ lastRuns = <<>>
    /\ lastAnalyze = NoAnalyze
    /\ retryRun = NoRetry
    /\ nDispatch = 0
    /\ nWorker = 0
    /\ nAnalyze = 0
    /\ nFaults = MaxFaults - 1
    /\ InitTracking

NextAB ==
    \/ InvokeStartCampaign
    \/ SendWorker
    \/ AnalyzerRuleFires
    \/ InvokeAnalyzer

SpecAB == InitAB /\ [][NextAB]_vars

\* C32: after one Dispatch of an A/B campaign and one analyzer run that followed
\* it, neither meeting a fault, no recipient has more than one send job among the jobs of the test groups
\* and the jobs of the winner's dispatch, wherever the test-group jobs are by then.
C32_NoRecipientTwice ==
    (/\ nDispatch = 1 /\ nAnalyze = 1
     /\ lastDispatch.called /\ lastDispatch.stateAfter = SENDING
     /\ nFaults = 0
     /\ lastAnalyze.called /\ lastAnalyze.stateBefore = SENDING)
        => \A i \in 1..Len(lastDispatch.contacts) :
              JobsFor(lastDispatch.accepted, lastDispatch.contacts[i].email)
                + JobsFor(lastAnalyze.accepted, lastDispatch.contacts[i].email) <= 1


(***************************************************************************)
(* An A/B campaign end to end: Dispatch, worker, recipients of variation B *)
(* opening and clicking, analyzer.                                         *)
(***************************************************************************)
\* The dispatched jobs of variation v.
JobsOfVariation(v) == {j \in IdsJobs : j.variation_id = v}

\* Tracking links are minted for the mail of a recipient of variation B.
EngageMint == MintLinksFor(JobsOfVariation("B"))

\* A recipient of variation B follows a link of the mail.
EngageClick == ClickWith(FALSE, None)

\* A recipient of variation B loads the pixel URL of the mail.
EngageOpen ==
    \E j \in JobsOfVariation("B") :
       LET pixel == generate_smart_tracking_pixel(j.campaign_id, j.recipient_id, j.email)
       IN OpenWith(pixel.rest, pixel.email)

NextEngage ==
    \/ InvokeStartCampaign
    \/ SendWorker
    \/ EngageMint
    \/ EngageClick
    \/ EngageOpen
    \/ AnalyzerRuleFires
    \/ InvokeAnalyzer

\* An A/B campaign as created over a segment of 3 addresses, all of them in the
\* test groups; no queue or table fault, and one invocation of Dispatch.
InitEngage ==
    /\ campaign = CampaignRow(TYPE_AB_TEST, SEGMENT, "segN", None, 100, "future")
    /\ segments = ("segN" :> SegmentRow(SEG_ACTIVE, SplitEmails(3))) @@ InitSegments
    /\ queue = <<>>
    /\ events = <<>>
    /\ schedulerRule = FALSE
    /\ analyzerRule = FALSE
    /\ lastDispatch = NoDispatch
    /\ lastRuns = <<>>
    /\ lastAnalyze = NoAnalyze
    /\ retryRun = NoRetry
    /\ nDispatch = MaxDispatch - 1
    /\ nWorker = 0
    /\ nAnalyze = 0
    /\ nFaults = MaxFaults
    /\ InitTracking

SpecEngage == InitEngage /\ [][NextEngage]_vars

\* Rows of the Open and Click routes exist, each of a recipient of variation B.
OnlyBEngaged ==
    /\ \E i \in 1..Len(events) : events[i].type \in {"open", "click"}
    /\ \A i \in 1..Len(events) :
          events[i].type \in {"open", "click"}
             => \E j \in JobsOfVariation("B") :
                   /\ j.email = events[i].email
                   /\ j.campaign_id = events[i].campaign_id

\* C33: when the only OPEN and CLICK rows are those of recipients that were sent
\* variation B, an analyzer run attributes them to B and selects B as the winner.
C33_EngagedVariantWins ==
    [][(nAnalyze' = nAnalyze + 1 /\ lastAnalyze'.ran /\ OnlyBEngaged)
         => /\ lastAnalyze'.scores["B"] > 0
            /\ lastAnalyze'.winner = "B"]_vars


\* An A/B campaign as created over a segment of 3 addresses, with decision_time
\* absent, past or future; one fault may occur (the registration of the
\* analyzer's rule failing is one).
InitDecision ==
    /\ \E dt \in {None, "past", "future"} :
         campaign = CampaignRow(TYPE_AB_TEST, SEGMENT, "segN", None, 100, dt)
    /\ segments = ("segN" :> SegmentRow(SEG_ACTIVE, SplitEmails(3))) @@ InitSegments
    /\ queue = <<>>
    /\ events = <<>>
    /\ schedulerRule = FALSE
    /\ analyzerRule = FALSE
    /\ lastDispatch = NoDispatch
    /\ lastRuns = <<>>
    /\ lastAnalyze = NoAnalyze
    /\ retryRun = NoRetry
    /\ nDispatch = 0
    /\ nWorker = 0
    /\ nAnalyze = 0
    /\ nFaults = MaxFaults - 1
    /\ InitTracking

NextDecision ==
    \/ InvokeStartCampaign
    \/ AnalyzerRuleFires
    \/ InvokeAnalyzer

\* Dispatch and analyzer with what the platform guarantees: a one-time rule that
\* exists fires. A direct invocation of the analyzer is possible and owed by nobody.
SpecDecisionLive ==
    /\ InitDecision /\ [][NextDecision]_vars
    /\ WF_vars(AnalyzerRuleFires)

\* C34: an A/B campaign that Dispatch left in SENDING eventually has the analyzer
\* run for it and reaches DONE, whether decision_time is absent, past or future
\* and whether or not the rule of the analyzer could be registered.
C34_ABReachesDone ==
    (IsAB(campaign) /\ lastDispatch.called /\ campaign.state = SENDING)
        ~> (lastAnalyze.called /\ campaign.state = DONE)


(***************************************************************************)
(* Scheduled campaigns from creation to Dispatch.                          *)
(***************************************************************************)
\* A campaign created SCHEDULED. create_scheduler_rule has registered the rule
\* start-campaign-c1, or has returned False: schedule_at not in the future, the
\* scheduler configuration missing, or create_schedule failing.
ScheduledCampaigns ==
    {CampaignRow(TYPE_SCHEDULED, SEGMENT, seg, None, DefaultTestPercentage, None) :
        seg \in {"segX", "segEmpty", "ghost", "all_active"}}
    \cup {CampaignRow(TYPE_SCHEDULED, INDIVIDUAL, None, "a@x.com", DefaultTestPercentage,
                      None)}

InitScheduled ==
    /\ campaign \in ScheduledCampaigns
    /\ segments = InitSegments
    /\ queue = <<>>
    /\ events = <<>>
    /\ schedulerRule \in BOOLEAN
    /\ analyzerRule = FALSE
    /\ lastDispatch = NoDispatch
    /\ lastRuns = <<>>
    /\ lastAnalyze = NoAnalyze
    /\ retryRun = NoRetry
    /\ nDispatch = 0
    /\ nWorker = 0
    /\ nAnalyze = 0
    /\ nFaults = 0
    /\ InitTracking

\* Dispatch with what the platform guarantees: a one-time rule that exists fires.
SpecScheduledLive ==
    /\ InitScheduled /\ [][NextDispatch]_vars
    /\ WF_vars(SchedulerFires)

\* C35: a campaign created in state SCHEDULED eventually leaves SCHEDULED,
\* whether or not its rule could be registered.
C35_ScheduledIsDispatched ==
    (campaign.type = TYPE_SCHEDULED /\ campaign.state = SCHEDULED)
        ~> (campaign.state # SCHEDULED)


\* C36: while a send job of the campaign is on the Send Queue, or a SENT row of
\* the campaign is in the Events table, the campaign's state is SENDING, DONE or
\* FAILED.
C36_JobsOnlyWhenSending ==
    (\/ \E i \in 1..Len(queue) : queue[i].campaign_id = campaign.id
     \/ \E i \in 1..Len(events) :
           events[i].type = "sent" /\ events[i].campaign_id = campaign.id)
        => campaign.state \in {SENDING, DONE, FAILED}


(***************************************************************************)
(* The analyzer invoked again after it stored a winner.                    *)
(***************************************************************************)
\* The first analyzer run of an A/B campaign in SENDING over segment seg (test
\* groups of size 0, no event yet), without a fault.
FirstAnalysis(seg) ==
    analyzer_handler([CampaignRow(TYPE_AB_TEST, SEGMENT, seg, None, 30, "future")
                         EXCEPT !.state = SENDING],
                     InitSegments, <<>>, "c1", FALSE, 0, None)

\* The state that run left: the winner stored, the campaign DONE, the winner's
\* jobs on the queue. One fault may occur from here on.
InitRerun ==
    /\ \E seg \in {"segX", "segFour"} :
         /\ campaign = FirstAnalysis(seg).campaign
         /\ queue = FirstAnalysis(seg).accepted
    /\ segments = InitSegments
    /\ events = <<>>
    /\ schedulerRule = FALSE
    /\ analyzerRule = FALSE
    /\ lastDispatch = NoDispatch
    /\ lastRuns = <<>>
    /\ lastAnalyze = NoAnalyze
    /\ retryRun = NoRetry
    /\ nDispatch = 0
    /\ nWorker = 0
    /\ nAnalyze = 0
    /\ nFaults = MaxFaults - 1
    /\ InitTracking

NextRerun ==
    \/ SendWorker
    \/ InvokeAnalyzer

SpecRerun == InitRerun /\ [][NextRerun]_vars

\* C37: an analyzer run on a campaign that has a winner stored leaves the winner
\* as it is and puts no job on the queue.
C37_WinnerDecidedOnce ==
    [][(nAnalyze' = nAnalyze + 1 /\ campaign.ab_test_config.winner_id # None)
         => /\ campaign'.ab_test_config.winner_id = campaign.ab_test_config.winner_id
            /\ lastAnalyze'.accepted = <<>>
            /\ queue' = queue]_vars


\* C38: when a Dispatch has written SENDING, the recipient_count on the campaign
\* row and the enqueued count of its answer are the number of send jobs the queue
\* accepted in that Dispatch, also when the queue rejected an entry of a batch.
C38_CountIsAccepted ==
    (/\ lastDispatch.called /\ lastDispatch.found
     /\ lastDispatch.result.statusCode = 200
     /\ lastDispatch.stateAfter = SENDING)
        => /\ campaign.recipient_count = Len(lastDispatch.accepted)
           /\ lastDispatch.result.enqueued = Len(lastDispatch.accepted)


====
